---------------------------- MODULE Spec2Model ----------------------------
(***************************************************************************)
(* Schema resolution and stable enum naming of kolah/eugene.               *)
(*                                                                         *)
(* Go strings are modelled as sequences of one-character strings, so that  *)
(* concatenation, sorting, splitting and case conversion are computed the  *)
(* way the code computes them.  Go maps are modelled as functions whose    *)
(* DOMAIN is the key set; a nil pointer is the record NilSchema.           *)
(***************************************************************************)
EXTENDS Integers, Sequences, FiniteSets, TLC

(***************************************************************************)
(* Characters and strings                                                  *)
(***************************************************************************)

\* The characters the model uses, in ascending byte order.
Alphabet ==
    << " ", "#", "-", ".", "/",
       "0", "1", "2", "3", "4", "5", "6", "7", "8", "9",
       "A", "B", "C", "D", "E", "F", "G", "H", "I", "J", "K", "L", "M",
       "N", "O", "P", "Q", "R", "S", "T", "U", "V", "W", "X", "Y", "Z",
       "[", "]", "_",
       "a", "b", "c", "d", "e", "f", "g", "h", "i", "j", "k", "l", "m",
       "n", "o", "p", "q", "r", "s", "t", "u", "v", "w", "x", "y", "z",
       "|" >>

Chars == { Alphabet[i] : i \in 1..Len(Alphabet) }

\* Byte order of a character.
Ord == [ c \in Chars |-> CHOOSE i \in 1..Len(Alphabet) : Alphabet[i] = c ]

OrdA == Ord["A"]
OrdZ == Ord["Z"]
Orda == Ord["a"]
Ordz == Ord["z"]

IsUpper(c) == Ord[c] >= OrdA /\ Ord[c] <= OrdZ
IsLower(c) == Ord[c] >= Orda /\ Ord[c] <= Ordz
IsDigit(c) == Ord[c] >= Ord["0"] /\ Ord[c] <= Ord["9"]

ToUpperChar(c) == IF IsLower(c) THEN Alphabet[Ord[c] - Orda + OrdA] ELSE c
ToLowerChar(c) == IF IsUpper(c) THEN Alphabet[Ord[c] - OrdA + Orda] ELSE c

\* strings.ToUpper
ToUpper(s) == [ i \in 1..Len(s) |-> ToUpperChar(s[i]) ]

\* Go's < on strings: byte-wise lexicographic order.
RECURSIVE StrLess(_, _)
StrLess(a, b) ==
    IF b = <<>> THEN FALSE
    ELSE IF a = <<>> THEN TRUE
    ELSE IF a[1] # b[1] THEN Ord[a[1]] < Ord[b[1]]
    ELSE StrLess(Tail(a), Tail(b))

\* Insertion of one string into a sorted sequence of strings.
RECURSIVE InsertSorted(_, _)
InsertSorted(x, sorted) ==
    IF sorted = <<>> THEN <<x>>
    ELSE IF StrLess(x, sorted[1]) THEN <<x>> \o sorted
    ELSE <<sorted[1]>> \o InsertSorted(x, Tail(sorted))

\* sort.Strings: the sequence in ascending byte order.
RECURSIVE SortStrings(_)
SortStrings(strs) ==
    IF strs = <<>> THEN <<>>
    ELSE InsertSorted(strs[1], SortStrings(Tail(strs)))

\* strings.Join
RECURSIVE Join(_, _)
Join(strs, sep) ==
    IF strs = <<>> THEN <<>>
    ELSE IF Len(strs) = 1 THEN strs[1]
    ELSE strs[1] \o sep \o Join(Tail(strs), sep)

\* The keys of a Go map in one of the orders a range loop can visit them:
\* ascending when ord = "asc", descending when ord = "desc".
RECURSIVE SetToSortedSeq(_)
SetToSortedSeq(S) ==
    IF S = {} THEN <<>>
    ELSE LET m == CHOOSE x \in S : \A y \in S \ {x} : StrLess(x, y)
         IN  <<m>> \o SetToSortedSeq(S \ {m})

Reverse(q) == [ i \in 1..Len(q) |-> q[Len(q) + 1 - i] ]

RangeKeys(S, ord) ==
    IF ord = "asc" THEN SetToSortedSeq(S) ELSE Reverse(SetToSortedSeq(S))

(***************************************************************************)
(* Identifier normalizer (naming.go)                                       *)
(***************************************************************************)

commonInitialisms ==
    { <<"A","P","I">>, <<"A","S","C","I","I">>, <<"C","P","U">>, <<"C","S","S">>,
      <<"D","N","S">>, <<"E","O","F">>, <<"G","U","I","D">>, <<"H","T","M","L">>,
      <<"H","T","T","P">>, <<"H","T","T","P","S">>, <<"I","D">>, <<"I","P">>,
      <<"J","S","O","N">>, <<"L","H","S">>, <<"Q","P","S">>, <<"R","A","M">>,
      <<"R","H","S">>, <<"R","P","C">>, <<"S","L","A">>, <<"S","M","T","P">>,
      <<"S","Q","L">>, <<"S","S","H">>, <<"T","C","P">>, <<"T","L","S">>,
      <<"T","T","L">>, <<"U","D","P">>, <<"U","I">>, <<"U","I","D">>,
      <<"U","U","I","D">>, <<"U","R","I">>, <<"U","R","L">>,
      <<"U","T","F","8">>, <<"V","M">>, <<"X","M","L">>, <<"X","M","P","P">>,
      <<"X","S","R","F">>, <<"X","S","S">>, <<"C","V","V">> }

IsSeparator(c) == c \in { "_", "-", " ", "." }

\* splitWords, as a loop over the positions of s: words are the words
\* finished so far, cur the word being built.
RECURSIVE splitWordsFrom(_, _, _, _)
splitWordsFrom(s, i, words, cur) ==
    IF i > Len(s)
    THEN IF Len(cur) > 0 THEN Append(words, cur) ELSE words
    ELSE IF IsSeparator(s[i])
    THEN IF Len(cur) > 0
         THEN splitWordsFrom(s, i + 1, Append(words, cur), <<>>)
         ELSE splitWordsFrom(s, i + 1, words, cur)
    ELSE IF /\ IsUpper(s[i])
            /\ i > 1
            /\ (IsLower(s[i - 1]) \/ IsDigit(s[i - 1]))
            /\ Len(cur) > 0
    THEN splitWordsFrom(s, i + 1, Append(words, cur), <<s[i]>>)
    ELSE splitWordsFrom(s, i + 1, words, Append(cur, s[i]))

splitWords(s) == splitWordsFrom(s, 1, <<>>, <<>>)

\* Faulty variant of capitalize: the letters after the first are left as
\* they are.
capitalizeFirstOnly(s) ==
    IF Len(s) = 0 THEN s
    ELSE [ i \in 1..Len(s) |-> IF i = 1 THEN ToUpperChar(s[i]) ELSE s[i] ]

capitalize(s) ==
    IF Len(s) = 0 THEN s
    ELSE [ i \in 1..Len(s) |->
             IF i = 1 THEN ToUpperChar(s[i]) ELSE ToLowerChar(s[i]) ]

RECURSIVE PascalWords(_)
PascalWords(words) ==
    IF words = <<>> THEN <<>>
    ELSE LET upper == ToUpper(words[1])
         IN  (IF upper \in commonInitialisms THEN upper ELSE capitalize(words[1]))
             \o PascalWords(Tail(words))

PascalCase(s) == PascalWords(splitWords(s))

\* splitRef: the non-empty parts of ref between '/' characters.
RECURSIVE splitRefFrom(_, _, _, _)
splitRefFrom(ref, i, parts, cur) ==
    IF i > Len(ref)
    THEN IF cur # <<>> THEN Append(parts, cur) ELSE parts
    ELSE IF ref[i] = "/"
    THEN splitRefFrom(ref, i + 1,
                      IF cur # <<>> THEN Append(parts, cur) ELSE parts, <<>>)
    ELSE splitRefFrom(ref, i + 1, parts, Append(cur, ref[i]))

splitRef(ref) == splitRefFrom(ref, 1, <<>>, <<>>)

refToTypeName(ref) ==
    LET parts == splitRef(ref)
    IN  IF Len(ref) > 0 /\ ref[1] = "#" /\ Len(parts) > 0
        THEN PascalCase(parts[Len(parts)])
        ELSE <<"a", "n", "y">>

packageName(importPath) ==
    LET parts == splitRef(<<"/">> \o importPath)
    IN  IF Len(parts) > 0 THEN parts[Len(parts)] ELSE importPath

(***************************************************************************)
(* Canonical schema model (model.Schema as the resolver reads it)          *)
(***************************************************************************)

\* A nil *model.Schema.
NilSchema == [ nil |-> TRUE ]

\* A nil *model.Discriminator.
NilDiscriminator == [ nil |-> TRUE ]

\* The zero value of model.Schema.
ZeroSchema ==
    [ nil |-> FALSE, Name |-> <<>>, Ref |-> <<>>, Type |-> "", Format |-> "",
      Description |-> <<>>, Properties |-> <<>>, Required |-> <<>>,
      Items |-> NilSchema, AdditionalProperties |-> NilSchema, Enum |-> <<>>,
      OneOf |-> <<>>, AnyOf |-> <<>>, AllOf |-> <<>>,
      Discriminator |-> NilDiscriminator ]

\* An enum literal ([]any element): a string, or a value of another type.
StrVal(s) == [ isString |-> TRUE, s |-> s ]
IntVal(n) == [ isString |-> FALSE, n |-> n ]

\* A Go map: put one entry.
MapPut(m, k, v) == [ kk \in (DOMAIN m) \cup {k} |-> IF kk = k THEN v ELSE m[kk] ]

EmptyMap == [ kk \in {} |-> <<>> ]

strAny == <<"a", "n", "y">>
strString == <<"s", "t", "r", "i", "n", "g">>
strSlice == <<"[", "]">>
strMapString == <<"m", "a", "p", "[", "s", "t", "r", "i", "n", "g", "]">>

(***************************************************************************)
(* Enum naming registry (registry.go)                                      *)
(***************************************************************************)

\* toStringSlice: the string elements of values, in order.
RECURSIVE toStringSlice(_)
toStringSlice(values) ==
    IF values = <<>> THEN <<>>
    ELSE IF values[1].isString
    THEN <<values[1].s>> \o toStringSlice(Tail(values))
    ELSE toStringSlice(Tail(values))

canonicalKey(values) == Join(SortStrings(values), <<"|">>)

valueSuffix(values) ==
    IF Len(values) = 0 THEN <<>>
    ELSE LET sorted == SortStrings(values)
         IN  IF Len(sorted) >= 2
             THEN PascalCase(sorted[1]) \o PascalCase(sorted[2])
             ELSE PascalCase(sorted[1])

NewEnumRegistry ==
    [ usages |-> <<>>, valueToName |-> EmptyMap, nameToValues |-> EmptyMap,
      generatedTypes |-> EmptyMap ]

CollectEnum(reg, fieldName, parentName, values) ==
    LET strs == toStringSlice(values)
    IN  [ reg EXCEPT !.usages =
            Append(@, [ FieldName |-> fieldName, ParentName |-> parentName,
                        Values |-> strs, ValuesKey |-> canonicalKey(strs) ]) ]

\* Faulty variant of bestFieldLoop: among fields with the same count the one
\* the range loop visits first is kept.
RECURSIVE bestFieldLoopNoTie(_, _, _, _)
bestFieldLoopNoTie(fieldCounts, fields, bestField, bestCount) ==
    IF fields = <<>> THEN bestField
    ELSE LET field == fields[1]
             count == fieldCounts[field]
         IN  IF count > bestCount
             THEN bestFieldLoopNoTie(fieldCounts, Tail(fields), field, count)
             ELSE bestFieldLoopNoTie(fieldCounts, Tail(fields), bestField, bestCount)

\* Faulty variant of bestFieldLoop: among fields with the same count the
\* greatest one is kept.
RECURSIVE bestFieldLoopGreatest(_, _, _, _)
bestFieldLoopGreatest(fieldCounts, fields, bestField, bestCount) ==
    IF fields = <<>> THEN bestField
    ELSE LET field == fields[1]
             count == fieldCounts[field]
         IN  IF count > bestCount \/ (count = bestCount /\ StrLess(bestField, field))
             THEN bestFieldLoopGreatest(fieldCounts, Tail(fields), field, count)
             ELSE bestFieldLoopGreatest(fieldCounts, Tail(fields), bestField, bestCount)

\* The loop of determineName over the field-count map, visiting the fields
\* in the order fields; best is (bestField, bestCount) so far.
RECURSIVE bestFieldLoop(_, _, _, _)
bestFieldLoop(fieldCounts, fields, bestField, bestCount) ==
    IF fields = <<>> THEN bestField
    ELSE LET field == fields[1]
             count == fieldCounts[field]
         IN  IF count > bestCount \/ (count = bestCount /\ StrLess(field, bestField))
             THEN bestFieldLoop(fieldCounts, Tail(fields), field, count)
             ELSE bestFieldLoop(fieldCounts, Tail(fields), bestField, bestCount)

determineName(reg, usages, valuesKey, ord) ==
    LET fieldNames == { usages[i].FieldName : i \in 1..Len(usages) }
        fieldCounts == [ f \in fieldNames |->
                           Cardinality({ i \in 1..Len(usages) : usages[i].FieldName = f }) ]
        bestField == bestFieldLoop(fieldCounts, RangeKeys(fieldNames, ord), <<>>, 0)
        baseName == PascalCase(bestField)
    IN  IF baseName \in DOMAIN reg.nameToValues /\ reg.nameToValues[baseName] # valuesKey
        THEN baseName \o valueSuffix(usages[1].Values)
        ELSE baseName

\* The usages with canonical key k, in collection order.
RECURSIVE groupOf(_, _)
groupOf(usages, k) ==
    IF usages = <<>> THEN <<>>
    ELSE IF usages[1].ValuesKey = k
    THEN <<usages[1]>> \o groupOf(Tail(usages), k)
    ELSE groupOf(Tail(usages), k)

\* The naming loop of ResolveNames over the sorted keys.
RECURSIVE resolveNamesLoop(_, _, _)
resolveNamesLoop(reg, keys, ord) ==
    IF keys = <<>> THEN reg
    ELSE LET valuesKey == keys[1]
             name == determineName(reg, groupOf(reg.usages, valuesKey), valuesKey, ord)
         IN  resolveNamesLoop(
                 [ reg EXCEPT !.valueToName = MapPut(@, valuesKey, name),
                              !.nameToValues = MapPut(@, name, valuesKey) ],
                 Tail(keys), ord)

\* Faulty variant of ResolveNames: the keys are named in the order the range
\* loop over the grouping map yields them, without sort.Strings.
ResolveNamesUnsorted(reg, ord) ==
    LET keySet == { reg.usages[i].ValuesKey : i \in 1..Len(reg.usages) }
    IN  resolveNamesLoop(reg, RangeKeys(keySet, ord), ord)

ResolveNames(reg, ord) ==
    LET keySet == { reg.usages[i].ValuesKey : i \in 1..Len(reg.usages) }
    IN  resolveNamesLoop(reg, SortStrings(RangeKeys(keySet, ord)), ord)

GetCanonicalName(reg, values) ==
    LET key == canonicalKey(toStringSlice(values))
    IN  IF key \in DOMAIN reg.valueToName
        THEN [ name |-> reg.valueToName[key], ok |-> TRUE ]
        ELSE [ name |-> <<>>, ok |-> FALSE ]

MarkGenerated(reg, name, rt) ==
    [ reg EXCEPT !.generatedTypes = MapPut(@, name, rt) ]

\* Faulty variant of IsGenerated: no name is ever reported as generated.
IsGeneratedNever(reg, name) == FALSE

IsGenerated(reg, name) == name \in DOMAIN reg.generatedTypes

(***************************************************************************)
(* Type resolver (types.go)                                                *)
(*                                                                         *)
(* A resolver method reads and writes the resolver r and, through the      *)
(* shared pointer r.registry, the registry reg.  Each method is an         *)
(* operator on a world w = [r, reg, ord, overflow] that returns the world  *)
(* after the call and the returned type reference: [w |-> ..., ret |-> ...].*)
(* ord is the order in which range loops over maps visit the keys during   *)
(* the call; overflow records that the call stack grew past MaxDepth.      *)
(***************************************************************************)

\* The recursion depth of flattenAllOfSchemas after which the model stops
\* following the expansion and records an overflow.
MaxDepth == 4

\* config.TypesConfig, the fields the resolver reads; a nil *TypesConfig.
NilConfig == [ nil |-> TRUE ]
TypesConfig(allOfStrategy, uuidPackage) ==
    [ nil |-> FALSE, AllOfStrategy |-> allOfStrategy, UUIDPackage |-> uuidPackage ]

\* A nil map[string]string import mapping, and a non-nil one.
NilMapping == [ nil |-> TRUE, m |-> EmptyMap ]
Mapping(m) == [ nil |-> FALSE, m |-> m ]

\* The resolver constructors.  registry and schemaLookup hold whether the
\* pointer, respectively the function, is non-nil; the registry itself is
\* shared state outside the resolver.
NewTypeResolverWithImportMapping(cfg, importMapping) ==
    [ cfg |-> cfg, importMapping |-> importMapping, nestedTypes |-> <<>>,
      seen |-> {}, enumValues |-> EmptyMap, mappedImports |-> {},
      registry |-> FALSE, schemaLookup |-> FALSE ]

NewTypeResolver(cfg) == NewTypeResolverWithImportMapping(cfg, NilMapping)

NewTypeResolverWithRegistry(cfg, importMapping) ==
    [ NewTypeResolverWithImportMapping(cfg, importMapping) EXCEPT !.registry = TRUE ]

NewTypeResolverWithSchemaLookup(cfg, importMapping) ==
    [ NewTypeResolverWithImportMapping(cfg, importMapping)
        EXCEPT !.registry = TRUE, !.schemaLookup = TRUE ]

\* A ResolvedType with the zero value in every field but Name and Schema.
ResolvedType(name, schema) ==
    [ Name |-> name, Schema |-> schema, IsUnion |-> FALSE, IsAllOf |-> FALSE,
      IsEnum |-> FALSE, Discriminator |-> NilDiscriminator, Variants |-> <<>> ]

goIntegerType(format) ==
    CASE format = "int32" -> <<"i", "n", "t", "3", "2">>
      [] format = "int64" -> <<"i", "n", "t", "6", "4">>
      [] OTHER -> <<"i", "n", "t">>

goNumberType(format) ==
    CASE format = "float" -> <<"f", "l", "o", "a", "t", "3", "2">>
      [] OTHER -> <<"f", "l", "o", "a", "t", "6", "4">>

uuidType(r) ==
    IF r.cfg.nil THEN strString
    ELSE IF r.cfg.UUIDPackage \in { "google", "gofrs" }
    THEN <<"u", "u", "i", "d", ".", "U", "U", "I", "D">>
    ELSE strString

goStringType(r, format) ==
    CASE format \in { "date-time", "date" } -> <<"t", "i", "m", "e", ".", "T", "i", "m", "e">>
      [] format = "uuid" -> uuidType(r)
      [] format = "uri" -> strString
      [] format \in { "byte", "binary" } -> <<"[", "]", "b", "y", "t", "e">>
      [] OTHER -> strString

\* enumValuesKey: the string values, sorted and joined with '|'.
enumValuesKey(values) == Join(SortStrings(toStringSlice(values)), <<"|">>)

Ret(w, ret) == [ w |-> w, ret |-> ret ]

MarkSeen(w, name) == [ w EXCEPT !.r.seen = @ \cup {name} ]

AppendNested(w, rt) == [ w EXCEPT !.r.nestedTypes = Append(@, rt) ]

RECURSIVE ResolveType(_, _, _, _)
RECURSIVE resolveObject(_, _, _, _)
RECURSIVE resolveUnion(_, _, _, _)
RECURSIVE resolveAllOf(_, _, _, _)
RECURSIVE resolveProperties(_, _, _)
RECURSIVE unionVariants(_, _, _, _, _)
RECURSIVE mergeLoop(_, _, _)
RECURSIVE flatten(_, _, _, _)
RECURSIVE flattenProperties(_, _, _)

\* The loops "for _, prop := range props { r.ResolveType(prop.Schema,
\* parentName, prop.Name) }": the world after them.
resolveProperties(w, props, parentName) ==
    IF props = <<>> THEN w
    ELSE resolveProperties(
             ResolveType(w, props[1].Schema, parentName, props[1].Name).w,
             Tail(props), parentName)

\* Faulty variant of resolveObject: the seen check is missing.
resolveObjectNoSeen(w, s, parentName, fieldName) ==
    IF ~s.AdditionalProperties.nil
    THEN LET v == ResolveType(w, s.AdditionalProperties, parentName,
                              fieldName \o <<"V", "a", "l", "u", "e">>)
         IN  Ret(v.w, strMapString \o v.ret)
    ELSE IF Len(s.Properties) = 0
    THEN Ret(w, strMapString \o strAny)
    ELSE LET nestedName == parentName \o PascalCase(fieldName)
             w1 == MarkSeen(w, nestedName)
             w2 == resolveProperties(w1, s.Properties, nestedName)
             resolvedSchema == [ s EXCEPT !.Name = nestedName ]
         IN  Ret(AppendNested(w2, ResolvedType(nestedName, resolvedSchema)),
                 nestedName)

\* Faulty variant of resolveObject: the object's declaration is appended
\* before its properties are resolved.
resolveObjectAppendsFirst(w, s, parentName, fieldName) ==
    IF ~s.AdditionalProperties.nil
    THEN LET v == ResolveType(w, s.AdditionalProperties, parentName,
                              fieldName \o <<"V", "a", "l", "u", "e">>)
         IN  Ret(v.w, strMapString \o v.ret)
    ELSE IF Len(s.Properties) = 0
    THEN Ret(w, strMapString \o strAny)
    ELSE LET nestedName == parentName \o PascalCase(fieldName)
         IN  IF nestedName \in w.r.seen
             THEN Ret(w, nestedName)
             ELSE LET resolvedSchema == [ s EXCEPT !.Name = nestedName ]
                      w1 == AppendNested(MarkSeen(w, nestedName),
                                         ResolvedType(nestedName, resolvedSchema))
                  IN  Ret(resolveProperties(w1, s.Properties, nestedName), nestedName)

resolveObject(w, s, parentName, fieldName) ==
    IF ~s.AdditionalProperties.nil
    THEN LET v == ResolveType(w, s.AdditionalProperties, parentName,
                              fieldName \o <<"V", "a", "l", "u", "e">>)
         IN  Ret(v.w, strMapString \o v.ret)
    ELSE IF Len(s.Properties) = 0
    THEN Ret(w, strMapString \o strAny)
    ELSE LET nestedName == parentName \o PascalCase(fieldName)
         IN  IF nestedName \in w.r.seen
             THEN Ret(w, nestedName)
             ELSE LET w1 == MarkSeen(w, nestedName)
                      w2 == resolveProperties(w1, s.Properties, nestedName)
                      resolvedSchema == [ s EXCEPT !.Name = nestedName ]
                  IN  Ret(AppendNested(w2, ResolvedType(nestedName, resolvedSchema)),
                          nestedName)

\* Faulty variant of resolveEnumRegistry: the name is derived from the field
\* name and the registry's binding is ignored.
resolveEnumRegistryFieldName(w, s, parentName, fieldName) ==
    LET name == PascalCase(fieldName)
    IN  IF IsGenerated(w.reg, name) THEN Ret(w, name)
        ELSE IF name \in w.r.seen THEN Ret(w, name)
        ELSE LET enumSchema == [ s EXCEPT !.Name = name ]
                 rt == [ ResolvedType(name, enumSchema) EXCEPT !.IsEnum = TRUE ]
                 w1 == AppendNested(MarkSeen(w, name), rt)
             IN  Ret([ w1 EXCEPT !.reg = MarkGenerated(@, name, rt) ], name)

\* Faulty variant of resolveEnumRegistry: the IsGenerated check is missing.
resolveEnumRegistryNoGenerated(w, s, parentName, fieldName) ==
    LET got == GetCanonicalName(w.reg, s.Enum)
        name == IF got.ok THEN got.name ELSE PascalCase(fieldName)
    IN  IF name \in w.r.seen THEN Ret(w, name)
        ELSE LET enumSchema == [ s EXCEPT !.Name = name ]
                 rt == [ ResolvedType(name, enumSchema) EXCEPT !.IsEnum = TRUE ]
                 w1 == AppendNested(MarkSeen(w, name), rt)
             IN  Ret([ w1 EXCEPT !.reg = MarkGenerated(@, name, rt) ], name)

\* Faulty variant of resolveEnumRegistry: a value set the registry does not
\* know is bound to the fallback name in the registry's naming maps.
resolveEnumRegistryBinds(w, s, parentName, fieldName) ==
    LET got == GetCanonicalName(w.reg, s.Enum)
        name == IF got.ok THEN got.name ELSE PascalCase(fieldName)
        key == canonicalKey(toStringSlice(s.Enum))
        wb == IF got.ok THEN w
              ELSE [ w EXCEPT !.reg.valueToName = MapPut(@, key, name),
                              !.reg.nameToValues = MapPut(@, name, key) ]
    IN  IF IsGenerated(wb.reg, name) THEN Ret(wb, name)
        ELSE IF name \in wb.r.seen THEN Ret(wb, name)
        ELSE LET enumSchema == [ s EXCEPT !.Name = name ]
                 rt == [ ResolvedType(name, enumSchema) EXCEPT !.IsEnum = TRUE ]
                 w1 == AppendNested(MarkSeen(wb, name), rt)
             IN  Ret([ w1 EXCEPT !.reg = MarkGenerated(@, name, rt) ], name)

\* resolveEnum with a registry attached (the branch r.registry != nil).
resolveEnumRegistry(w, s, parentName, fieldName) ==
    LET got == GetCanonicalName(w.reg, s.Enum)
        name == IF got.ok THEN got.name ELSE PascalCase(fieldName)
    IN  IF IsGenerated(w.reg, name) THEN Ret(w, name)
        ELSE IF name \in w.r.seen THEN Ret(w, name)
        ELSE LET enumSchema == [ s EXCEPT !.Name = name ]
                 rt == [ ResolvedType(name, enumSchema) EXCEPT !.IsEnum = TRUE ]
                 w1 == AppendNested(MarkSeen(w, name), rt)
             IN  Ret([ w1 EXCEPT !.reg = MarkGenerated(@, name, rt) ], name)

\* Faulty variant of resolveEnumLocal: the declaration is memoized and
\* marked seen but never appended to nestedTypes.
resolveEnumLocalNoAppend(w, s, parentName, fieldName) ==
    LET enumKey == enumValuesKey(s.Enum)
        nestedName == parentName \o PascalCase(fieldName)
    IN  IF enumKey \in DOMAIN w.r.enumValues THEN Ret(w, w.r.enumValues[enumKey])
        ELSE IF nestedName \in w.r.seen THEN Ret(w, nestedName)
        ELSE Ret([ MarkSeen(w, nestedName)
                     EXCEPT !.r.enumValues = MapPut(@, enumKey, nestedName) ],
                 nestedName)

\* resolveEnum without a registry: memoization by value set.
resolveEnumLocal(w, s, parentName, fieldName) ==
    LET enumKey == enumValuesKey(s.Enum)
        nestedName == parentName \o PascalCase(fieldName)
    IN  IF enumKey \in DOMAIN w.r.enumValues THEN Ret(w, w.r.enumValues[enumKey])
        ELSE IF nestedName \in w.r.seen THEN Ret(w, nestedName)
        ELSE LET enumSchema == [ s EXCEPT !.Name = nestedName ]
                 rt == [ ResolvedType(nestedName, enumSchema) EXCEPT !.IsEnum = TRUE ]
                 w1 == [ MarkSeen(w, nestedName)
                           EXCEPT !.r.enumValues = MapPut(@, enumKey, nestedName) ]
             IN  Ret(AppendNested(w1, rt), nestedName)

resolveEnum(w, s, parentName, fieldName) ==
    IF w.r.registry
    THEN resolveEnumRegistry(w, s, parentName, fieldName)
    ELSE resolveEnumLocal(w, s, parentName, fieldName)

\* The discriminator literal of one variant: the first mapping entry, in the
\* order discVals, whose target is the variant's $ref or resolves to its type.
RECURSIVE discValueLoop(_, _, _, _)
discValueLoop(mapping, discVals, variantRef, typeName) ==
    IF discVals = <<>> THEN <<>>
    ELSE LET ref == mapping[discVals[1]]
         IN  IF variantRef = ref \/ refToTypeName(ref) = typeName
             THEN discVals[1]
             ELSE discValueLoop(mapping, Tail(discVals), variantRef, typeName)

\* The variant loop of resolveUnion: the world and the variants built.
unionVariants(w, s, schemas, nestedName, variants) ==
    IF schemas = <<>> THEN [ w |-> w, variants |-> variants ]
    ELSE LET variant == schemas[1]
             res == IF variant.Ref # <<>>
                    THEN Ret(w, refToTypeName(variant.Ref))
                    ELSE ResolveType(w, variant, nestedName,
                                     <<"V", "a", "r", "i", "a", "n", "t">>)
             discValue ==
                 IF ~s.Discriminator.nil /\ ~s.Discriminator.Mapping.nil
                 THEN discValueLoop(s.Discriminator.Mapping.m,
                                    RangeKeys(DOMAIN s.Discriminator.Mapping.m, w.ord),
                                    variant.Ref, res.ret)
                 ELSE <<>>
             v == [ Name |-> res.ret, TypeName |-> res.ret,
                    DiscValue |-> discValue, Schema |-> variant ]
         IN  unionVariants(res.w, s, Tail(schemas), nestedName, Append(variants, v))

resolveUnion(w, s, parentName, fieldName) ==
    LET schemas == IF Len(s.OneOf) = 0 THEN s.AnyOf ELSE s.OneOf
        nestedName == parentName \o PascalCase(fieldName)
    IN  IF nestedName \in w.r.seen THEN Ret(w, nestedName)
        ELSE LET vs == unionVariants(MarkSeen(w, nestedName), s, schemas,
                                     nestedName, <<>>)
                 rt == [ ResolvedType(nestedName, s)
                           EXCEPT !.IsUnion = TRUE,
                                  !.Discriminator = s.Discriminator,
                                  !.Variants = vs.variants ]
             IN  Ret(AppendNested(vs.w, rt), nestedName)

\* The accumulator of mergeAllOfSchemas and flattenAllOfSchemas: the world,
\* the merged schema, requiredMap and seenProps.
NewMerge(w) ==
    [ w |-> w, merged |-> [ ZeroSchema EXCEPT !.Type = "object" ],
      requiredMap |-> {}, seenProps |-> {} ]

\* The final loop "for req := range requiredMap": the merged schema.
FinishMerge(acc) ==
    [ acc EXCEPT !.merged.Required = RangeKeys(acc.requiredMap, acc.w.ord) ]

AddRequired(acc, s) ==
    [ acc EXCEPT !.requiredMap = @ \cup { s.Required[i] : i \in 1..Len(s.Required) },
                 !.merged.Description =
                     IF s.Description # <<>> /\ @ = <<>> THEN s.Description ELSE @ ]

\* The schema loop of mergeAllOfSchemas.
mergeLoop(acc, schemas, parentName) ==
    IF schemas = <<>> THEN acc
    ELSE LET s == schemas[1]
         IN  IF s.Ref # <<>>
             THEN mergeLoop([ acc EXCEPT !.merged.AllOf = Append(@, s) ],
                            Tail(schemas), parentName)
             ELSE LET w1 == resolveProperties(acc.w, s.Properties, parentName)
                      acc1 == [ acc EXCEPT !.w = w1,
                                           !.merged.Properties = @ \o s.Properties ]
                  IN  mergeLoop(AddRequired(acc1, s), Tail(schemas), parentName)

mergeAllOfSchemas(w, schemas, parentName) ==
    FinishMerge(mergeLoop(NewMerge(w), schemas, parentName))

\* Faulty variant of flattenProperties: the seenProps check is missing, every
\* property is appended.
RECURSIVE flattenPropertiesAll(_, _, _)
flattenPropertiesAll(acc, props, parentName) ==
    IF props = <<>> THEN acc
    ELSE LET prop == props[1]
             w1 == ResolveType(acc.w, prop.Schema, parentName, prop.Name).w
             acc1 == [ acc EXCEPT !.w = w1,
                                  !.seenProps = @ \cup {prop.Name},
                                  !.merged.Properties = Append(@, prop) ]
         IN  flattenPropertiesAll(acc1, Tail(props), parentName)

\* The property loops of flattenAllOfSchemas: the first occurrence of a
\* property name wins.
flattenProperties(acc, props, parentName) ==
    IF props = <<>> THEN acc
    ELSE LET prop == props[1]
         IN  IF prop.Name \in acc.seenProps
             THEN flattenProperties(acc, Tail(props), parentName)
             ELSE LET w1 == ResolveType(acc.w, prop.Schema, parentName, prop.Name).w
                      acc1 == [ acc EXCEPT !.w = w1,
                                           !.seenProps = @ \cup {prop.Name},
                                           !.merged.Properties = Append(@, prop) ]
                  IN  flattenProperties(acc1, Tail(props), parentName)

\* The last '/'-separated part of ref (strings.Split, last element).
RECURSIVE LastSegment(_)
LastSegment(ref) ==
    IF \A i \in 1..Len(ref) : ref[i] # "/" THEN ref
    ELSE LastSegment(Tail(ref))

\* Spec.SchemaByRef over the named schemas of the document.
RECURSIVE SchemaByName(_, _)
SchemaByName(schemas, name) ==
    IF schemas = <<>> THEN NilSchema
    ELSE IF schemas[1].Name = name THEN schemas[1]
    ELSE SchemaByName(Tail(schemas), name)

\* Faulty variant of SchemaByRef: the whole reference is compared with the
\* schema names, not its last segment.
SchemaByRefWhole(schemas, ref) == SchemaByName(schemas, ref)

SchemaByRef(schemas, ref) == SchemaByName(schemas, LastSegment(ref))

\* The closure flatten of flattenAllOfSchemas, depth calls deep.
flatten(acc, schemas, parentName, depth) ==
    IF schemas = <<>> THEN acc
    ELSE IF depth > MaxDepth THEN [ acc EXCEPT !.w.overflow = TRUE ]
    ELSE LET s == schemas[1]
         IN  IF s.Ref # <<>>
             THEN LET refSchema == SchemaByRef(acc.w.schemas, s.Ref)
                  IN  IF refSchema.nil
                      THEN flatten(acc, Tail(schemas), parentName, depth)
                      ELSE LET acc1 == IF Len(refSchema.AllOf) > 0
                                       THEN flatten(acc, refSchema.AllOf, parentName,
                                                    depth + 1)
                                       ELSE acc
                               acc2 == flattenProperties(acc1, refSchema.Properties,
                                                         parentName)
                           IN  flatten(AddRequired(acc2, refSchema), Tail(schemas),
                                       parentName, depth)
             ELSE LET acc1 == flattenProperties(acc, s.Properties, parentName)
                  IN  flatten(AddRequired(acc1, s), Tail(schemas), parentName, depth)

flattenAllOfSchemas(w, schemas, parentName) ==
    FinishMerge(flatten(NewMerge(w), schemas, parentName, 1))

resolveAllOf(w, s, parentName, fieldName) ==
    LET nestedName == parentName \o PascalCase(fieldName)
        shouldFlatten == /\ ~w.r.cfg.nil
                         /\ w.r.cfg.AllOfStrategy = "flatten"
                         /\ w.r.schemaLookup
        allRefs == \A i \in 1..Len(s.AllOf) : s.AllOf[i].Ref # <<>>
    IN  IF nestedName \in w.r.seen THEN Ret(w, nestedName)
        ELSE LET w1 == MarkSeen(w, nestedName)
             IN  IF shouldFlatten
                 THEN LET acc == flattenAllOfSchemas(w1, s.AllOf, nestedName)
                          merged == [ acc.merged EXCEPT !.Name = nestedName ]
                      IN  Ret(AppendNested(acc.w, ResolvedType(nestedName, merged)),
                              nestedName)
                 ELSE IF allRefs
                 THEN LET resolvedSchema == [ s EXCEPT !.Name = nestedName ]
                          rt == [ ResolvedType(nestedName, resolvedSchema)
                                    EXCEPT !.IsAllOf = Len(resolvedSchema.AllOf) > 0 ]
                      IN  Ret(AppendNested(w1, rt), nestedName)
                 ELSE LET acc == mergeAllOfSchemas(w1, s.AllOf, nestedName)
                          resolvedSchema == [ acc.merged EXCEPT !.Name = nestedName ]
                          rt == [ ResolvedType(nestedName, resolvedSchema)
                                    EXCEPT !.IsAllOf = Len(resolvedSchema.AllOf) > 0 ]
                      IN  Ret(AppendNested(acc.w, rt), nestedName)

\* Faulty variant of resolveNil: the name the node would get is marked seen.
resolveNilMarks(w, parentName, fieldName) ==
    Ret(MarkSeen(w, parentName \o PascalCase(fieldName)), strAny)

\* The nil branch of ResolveType: the placeholder type, nothing else.
resolveNil(w, parentName, fieldName) == Ret(w, strAny)

\* The $ref branch of ResolveType.
resolveRef(w, s) ==
    IF ~w.r.importMapping.nil /\ s.Ref \in DOMAIN w.r.importMapping.m
    THEN LET pkgPath == w.r.importMapping.m[s.Ref]
         IN  Ret([ w EXCEPT !.r.mappedImports = @ \cup {pkgPath} ],
                 packageName(pkgPath) \o <<".">> \o refToTypeName(s.Ref))
    ELSE Ret(w, refToTypeName(s.Ref))

ResolveType(w, s, parentName, fieldName) ==
    IF s.nil THEN resolveNil(w, parentName, fieldName)
    ELSE IF s.Ref # <<>> THEN resolveRef(w, s)
    ELSE IF Len(s.OneOf) > 0 \/ Len(s.AnyOf) > 0
    THEN resolveUnion(w, s, parentName, fieldName)
    ELSE IF Len(s.AllOf) > 0 THEN resolveAllOf(w, s, parentName, fieldName)
    ELSE IF Len(s.Enum) > 0 /\ parentName # <<>>
    THEN resolveEnum(w, s, parentName, fieldName)
    ELSE CASE s.Type = "string" -> Ret(w, goStringType(w.r, s.Format))
           [] s.Type = "integer" -> Ret(w, goIntegerType(s.Format))
           [] s.Type = "number" -> Ret(w, goNumberType(s.Format))
           [] s.Type = "boolean" -> Ret(w, <<"b", "o", "o", "l">>)
           [] s.Type = "array" ->
                LET item == ResolveType(w, s.Items, parentName,
                                        fieldName \o <<"I", "t", "e", "m">>)
                IN  Ret(item.w, strSlice \o item.ret)
           [] s.Type = "object" -> resolveObject(w, s, parentName, fieldName)
           [] OTHER -> Ret(w, strAny)

(***************************************************************************)
(* Inputs: the document and the resolve calls the model draws from         *)
(***************************************************************************)

nStatus == <<"s", "t", "a", "t", "u", "s">>
nState == <<"s", "t", "a", "t", "e">>
nPriority == <<"p", "r", "i", "o", "r", "i", "t", "y">>
nMode == <<"m", "o", "d", "e">>
nOrder == <<"O", "r", "d", "e", "r">>
nTask == <<"T", "a", "s", "k">>
nJob == <<"J", "o", "b">>
nUser == <<"U", "s", "e", "r">>
nModel == <<"M", "o", "d", "e", "l">>
nCombined == <<"c", "o", "m", "b", "i", "n", "e", "d">>

RefTo(name) ==
    <<"#", "/", "c", "o", "m", "p", "o", "n", "e", "n", "t", "s", "/",
      "s", "c", "h", "e", "m", "a", "s", "/">> \o name

\* Enum literal lists.
valsPendingActive == << StrVal(<<"p", "e", "n", "d", "i", "n", "g">>),
                        StrVal(<<"a", "c", "t", "i", "v", "e">>) >>
valsActivePending == << StrVal(<<"a", "c", "t", "i", "v", "e">>),
                        StrVal(<<"p", "e", "n", "d", "i", "n", "g">>) >>
valsLowHigh == << StrVal(<<"l", "o", "w">>), StrVal(<<"h", "i", "g", "h">>) >>
valsSlowFast == << StrVal(<<"s", "l", "o", "w">>), StrVal(<<"f", "a", "s", "t">>) >>
valsOnOff == << StrVal(<<"o", "n">>), StrVal(<<"o", "f", "f">>) >>

\* Schema nodes.
StringSchema(format) == [ ZeroSchema EXCEPT !.Type = "string", !.Format = format ]
IntegerSchema == [ ZeroSchema EXCEPT !.Type = "integer" ]
EnumSchema(values) == [ ZeroSchema EXCEPT !.Type = "string", !.Enum = values ]
RefSchema(ref) == [ ZeroSchema EXCEPT !.Ref = ref ]
ArraySchema(items) == [ ZeroSchema EXCEPT !.Type = "array", !.Items = items ]
ObjectSchema(props, required) ==
    [ ZeroSchema EXCEPT !.Type = "object", !.Properties = props, !.Required = required ]
MapSchema(valueSchema) ==
    [ ZeroSchema EXCEPT !.Type = "object", !.AdditionalProperties = valueSchema ]
Prop(name, schema) == [ Name |-> name, Schema |-> schema ]

\* The named schemas of the document (spec.Schemas), which $refs look up:
\* A declares property x, B declares property y.
SchemaA ==
    [ ObjectSchema(<< Prop(<<"x">>, StringSchema("")) >>, << <<"x">> >>)
        EXCEPT !.Name = <<"A">> ]
SchemaB ==
    [ ObjectSchema(<< Prop(<<"y">>, IntegerSchema) >>, <<>>) EXCEPT !.Name = <<"B">> ]
SpecSchemas == << SchemaA, SchemaB >>

\* model.Spec: the operations with their parameters, and the named schemas.
Param(name, schema) == [ Name |-> name, Schema |-> schema ]
Operation(id, params) == [ ID |-> id, Parameters |-> params ]
Document(operations, schemas) == [ Operations |-> operations, Schemas |-> schemas ]

\* allOf = [A, B], all members references.
AllOfAB == [ ZeroSchema EXCEPT !.AllOf = << RefSchema(RefTo(<<"A">>)),
                                           RefSchema(RefTo(<<"B">>)) >> ]

\* allOf = [A, {z: enum, x: integer}], one member inline.
AllOfMixed ==
    [ ZeroSchema EXCEPT !.AllOf =
        << RefSchema(RefTo(<<"A">>)),
           ObjectSchema(<< Prop(<<"z">>, EnumSchema(valsOnOff)),
                           Prop(<<"x">>, IntegerSchema) >>, << <<"z">> >>) >> ]

\* oneOf = [Cat, Dog] with the discriminator mapping {cat: Cat}.
OneOfCatDog ==
    [ ZeroSchema EXCEPT
        !.OneOf = << RefSchema(RefTo(<<"C", "a", "t">>)),
                     RefSchema(RefTo(<<"D", "o", "g">>)) >>,
        !.Discriminator =
            [ nil |-> FALSE, PropertyName |-> <<"k", "i", "n", "d">>,
              Mapping |-> Mapping([ k \in { <<"c", "a", "t">> } |->
                                      RefTo(<<"C", "a", "t">>) ]) ] ]

\* anyOf with one inline object member and one primitive member.
AnyOfInline ==
    [ ZeroSchema EXCEPT
        !.AnyOf = << ObjectSchema(<< Prop(<<"i", "d">>, IntegerSchema) >>, <<>>),
                     StringSchema("") >> ]

\* An object with a primitive property and an inline enum property.
NestedObject ==
    ObjectSchema(<< Prop(<<"n", "a", "m", "e">>, StringSchema("")),
                    Prop(nStatus, EnumSchema(valsPendingActive)) >>, <<>>)

Call(s, parentName, fieldName) ==
    [ s |-> s, parentName |-> parentName, fieldName |-> fieldName ]

\* The (node, parentName, fieldName) triples a session may resolve.
Calls ==
    { Call(NilSchema, nUser, nStatus),
      Call(RefSchema(RefTo(<<"E", "x", "t">>)), nUser, <<"e", "x", "t">>),
      Call(StringSchema("uuid"), <<>>, <<>>),
      Call(ArraySchema(EnumSchema(valsLowHigh)), nTask, <<"t", "a", "g", "s">>),
      Call(MapSchema(IntegerSchema), nUser, <<"m", "e", "t", "a">>),
      Call(NestedObject, nUser, <<"p", "r", "e", "f", "s">>),
      Call(NestedObject, <<>>, nStatus),
      Call(EnumSchema(valsPendingActive), nOrder, nStatus),
      Call(EnumSchema(valsActivePending), nTask, nState),
      Call(EnumSchema(valsPendingActive), <<>>, nStatus),
      Call(EnumSchema(valsOnOff), nUser, nMode),
      Call(OneOfCatDog, <<"P", "e", "t">>, <<"a", "n", "i", "m", "a", "l">>),
      Call(AnyOfInline, nUser, <<"p", "r", "e", "f", "s">>),
      Call(AllOfAB, nModel, nCombined),
      Call(AllOfMixed, nModel, <<"m", "i", "x", "e", "d">>) }

Usage(fieldName, parentName, values) ==
    [ fieldName |-> fieldName, parentName |-> parentName, values |-> values ]

\* The enum occurrences of a document, in the order collectEnums meets them.
Docs ==
    { << Usage(nStatus, nOrder, valsPendingActive),
         Usage(nPriority, nTask, valsLowHigh),
         Usage(nPriority, nJob, valsSlowFast),
         Usage(nState, nTask, valsActivePending) >>,
      << Usage(nPriority, nJob, valsSlowFast),
         Usage(nState, nTask, valsActivePending),
         Usage(nPriority, nTask, valsLowHigh),
         Usage(nStatus, nOrder, valsPendingActive),
         Usage(nStatus, nUser, valsPendingActive) >> }

\* The import mapping of the configuration: Ext lives in example.com/ext.
ExtMapping ==
    Mapping([ k \in { RefTo(<<"E", "x", "t">>) } |->
                <<"e", "x", "a", "m", "p", "l", "e", ".", "c", "o", "m", "/",
                  "e", "x", "t">> ])

\* The sessions a run may create, one per constructor.
NewSessions ==
    { NewTypeResolver(TypesConfig("flatten", "")),
      NewTypeResolverWithImportMapping(NilConfig, ExtMapping),
      NewTypeResolverWithRegistry(TypesConfig("", "google"), NilMapping),
      NewTypeResolverWithSchemaLookup(TypesConfig("flatten", ""), ExtMapping) }

\* The value list the registry is queried for.
QueryValues == valsActivePending

\* The orders in which a range loop over a map may visit its keys.
Orders == { "asc", "desc" }

\* Resolving the node ranges over a map: the discriminator mapping of a union
\* or the requiredMap of an allOf merge.
RECURSIVE RangesOverMap(_)
RangesOverMap(s) ==
    /\ ~s.nil
    /\ \/ Len(s.AllOf) > 0
       \/ ~s.Discriminator.nil
       \/ RangesOverMap(s.Items)
       \/ RangesOverMap(s.AdditionalProperties)
       \/ \E k \in 1..Len(s.Properties) : RangesOverMap(s.Properties[k].Schema)
       \/ \E k \in 1..Len(s.OneOf) : RangesOverMap(s.OneOf[k])
       \/ \E k \in 1..Len(s.AnyOf) : RangesOverMap(s.AnyOf[k])

\* The iteration orders that one resolve call of the node may meet; a call
\* that ranges over no map has one outcome, drawn once.
OrdersOf(s) == IF RangesOverMap(s) THEN Orders ELSE { "asc" }

(***************************************************************************)
(* State                                                                   *)
(***************************************************************************)

\* The most sessions of one run, and the most ResolveType calls of one run.
MaxSessions == 2
MaxCalls == 2

VARIABLES
    pc,        \* position of the run: "collect", "frozen", or a step of Generate
    pending,   \* the items the loop in progress has yet to visit
    registry,  \* the EnumRegistry of the run
    sessions,  \* the TypeResolver sessions created so far; the last is current
    ncalls,    \* number of resolve calls made so far
    last,      \* the last call made: its session, arguments and result
    resolved,  \* number of calls of ResolveNames that have returned
    config,    \* the configuration: of the Generate run, or the middleware Options
    doc,       \* the document the run works on (model.Spec, or the OpenAPI model)
    first      \* what each call returned when the session first made it

vars == << pc, pending, registry, sessions, ncalls, last, resolved, config, doc,
          first >>

NoCall == [ op |-> "none" ]

\* The configuration of a run that drives the API directly: no targets.
NoTargets == [ Targets |-> {}, ServerFramework |-> "" ]

World(r, reg, ord) ==
    [ r |-> r, reg |-> reg, ord |-> ord, overflow |-> FALSE, schemas |-> doc.Schemas ]

(***************************************************************************)
(* The registry and resolver API, in the order the generator drives it:    *)
(* collect every enum occurrence, ResolveNames, then one session after     *)
(* another, each resolving any of the Calls.                               *)
(***************************************************************************)

Init ==
    /\ pc = "collect"
    /\ pending \in Docs
    /\ registry = NewEnumRegistry
    /\ sessions = <<>>
    /\ ncalls = 0
    /\ last = NoCall
    /\ resolved = 0
    /\ config = NoTargets
    /\ doc = Document(<<>>, SpecSchemas)
    /\ first = EmptyMap

DoCollectEnum ==
    /\ pc = "collect"
    /\ pending # <<>>
    /\ registry' = CollectEnum(registry, pending[1].fieldName, pending[1].parentName,
                               pending[1].values)
    /\ pending' = Tail(pending)
    /\ UNCHANGED << pc, sessions, ncalls, last, resolved, config, doc, first >>

DoResolveNames ==
    /\ pc = "collect"
    /\ pending = <<>>
    /\ \E ord \in Orders : registry' = ResolveNames(registry, ord)
    /\ pc' = "frozen"
    /\ resolved' = resolved + 1
    /\ UNCHANGED << pending, sessions, ncalls, last, config, doc, first >>

\* A session is created by one of the four constructors.  The sessions that
\* follow one another in a run are the generator's target sessions, which
\* share the registry; a session without a registry is on its own.
DoNewSession ==
    /\ pc = "frozen"
    /\ Len(sessions) < MaxSessions
    /\ \E r \in NewSessions :
         /\ sessions # <<>> => (r.registry /\ sessions[Len(sessions)].registry)
         /\ sessions' = Append(sessions, r)
    /\ UNCHANGED << pc, pending, registry, ncalls, last, resolved, config, doc, first >>

\* The current session resolves one node.
DoResolveType ==
    /\ pc = "frozen"
    /\ Len(sessions) > 0
    /\ ncalls < MaxCalls
    /\ \E c \in Calls : \E ord \in OrdersOf(c.s) :
         LET cur == Len(sessions)
             res == ResolveType(World(sessions[cur], registry, ord),
                                c.s, c.parentName, c.fieldName)
         IN  /\ sessions' = [ sessions EXCEPT ![cur] = res.w.r ]
             /\ registry' = res.w.reg
             /\ last' = [ op |-> "ResolveType", sess |-> cur, call |-> c,
                          ret |-> res.ret ]
    /\ ncalls' = ncalls + 1
    /\ UNCHANGED << pc, pending, resolved, config, doc, first >>

\* The read-only registry queries: GetCanonicalName, IsGenerated and
\* GetGeneratedType return a value and assign nothing.
DoQuery ==
    /\ pc = "frozen"
    /\ LET got == GetCanonicalName(registry, QueryValues)
       IN  got.ok => IsGenerated(registry, got.name) \in BOOLEAN
    /\ UNCHANGED vars

Next ==
    \/ DoCollectEnum
    \/ DoResolveNames
    \/ DoNewSession
    \/ DoResolveType
    \/ DoQuery

Spec == Init /\ [][Next]_vars

(***************************************************************************)
(* Generator.Generate: one run of the generation driver over a document    *)
(***************************************************************************)

nListTasks == <<"l", "i", "s", "t", "T", "a", "s", "k", "s">>

\* The documents a run may be given: one with an operation whose parameters
\* include inline enums and with schemas that hold enum properties and an
\* allOf composition, and one without any enum.
GenDocs ==
    { Document(
          << Operation(nListTasks,
                       << Param(nPriority, EnumSchema(valsLowHigh)),
                          Param(<<"l", "i", "m", "i", "t">>, IntegerSchema),
                          Param(nState, ArraySchema(EnumSchema(valsActivePending))) >>) >>,
          << [ ObjectSchema(<< Prop(nPriority, EnumSchema(valsSlowFast)),
                               Prop(nStatus, EnumSchema(valsPendingActive)) >>, <<>>)
                 EXCEPT !.Name = nTask ],
             SchemaA,
             [ AllOfAB EXCEPT !.Name = nCombined ] >>),
      Document(<< Operation(nListTasks,
                            << Param(<<"l", "i", "m", "i", "t">>, IntegerSchema) >>) >>,
               << SchemaB >>) }

\* The configurations of a run: any set of targets, a server framework.
GenConfigs ==
    [ Targets : SUBSET { "types", "server", "strict-server", "client", "spec" },
      ServerFramework : { "echo", "chi", "gin" } ]

GenTypesConfig == TypesConfig("flatten", "")

HasTarget(cfg, target) == target \in cfg.Targets

\* The frameworks server.New and strictserver.New accept.
SupportedFramework(frameworkName) == frameworkName \in { "echo", "chi", "stdlib" }

\* collectEnums: the CollectEnum calls of one document, parameters of the
\* operations first, then the properties of the schemas.
RECURSIVE paramUsages(_, _)
paramUsages(opID, params) ==
    IF params = <<>> THEN <<>>
    ELSE (IF ~params[1].Schema.nil /\ Len(params[1].Schema.Enum) > 0
          THEN << Usage(params[1].Name, opID, params[1].Schema.Enum) >>
          ELSE <<>>) \o paramUsages(opID, Tail(params))

RECURSIVE operationUsages(_)
operationUsages(ops) ==
    IF ops = <<>> THEN <<>>
    ELSE paramUsages(ops[1].ID, ops[1].Parameters) \o operationUsages(Tail(ops))

RECURSIVE schemaUsages(_)
schemaUsages(schemas) ==
    IF schemas = <<>> THEN <<>>
    ELSE paramUsages(schemas[1].Name, schemas[1].Properties) \o schemaUsages(Tail(schemas))

collectEnums(spec) == operationUsages(spec.Operations) \o schemaUsages(spec.Schemas)

\* The resolve requests of the types target: a composition schema as a
\* whole under its name, any other schema property by property.
RECURSIVE propertyCalls(_, _)
propertyCalls(parentName, props) ==
    IF props = <<>> THEN <<>>
    ELSE << Call(props[1].Schema, parentName, props[1].Name) >>
         \o propertyCalls(parentName, Tail(props))

RECURSIVE typesCalls(_)
typesCalls(schemas) ==
    IF schemas = <<>> THEN <<>>
    ELSE LET schema == schemas[1]
         IN  (IF Len(schema.OneOf) > 0 \/ Len(schema.AnyOf) > 0 \/ Len(schema.AllOf) > 0
              THEN << Call(schema, <<>>, schema.Name) >>
              ELSE propertyCalls(schema.Name, schema.Properties))
             \o typesCalls(Tail(schemas))

\* The resolve requests of the server targets: every parameter of every
\* operation, under the operation's ID.
RECURSIVE serverCalls(_)
serverCalls(ops) ==
    IF ops = <<>> THEN <<>>
    ELSE propertyCalls(ops[1].ID, ops[1].Parameters) \o serverCalls(Tail(ops))

\* schemaToGoType of the server targets.
RECURSIVE schemaToGoType(_, _, _, _)
schemaToGoType(w, s, operationID, paramName) ==
    IF s.nil THEN Ret(w, strAny)
    ELSE IF s.Ref # <<>> /\ Len(splitRef(s.Ref)) > 0
    THEN Ret(w, PascalCase(splitRef(s.Ref)[Len(splitRef(s.Ref))]))
    ELSE IF Len(s.Enum) > 0 /\ operationID # <<>> /\ paramName # <<>>
    THEN ResolveType(w, s, PascalCase(operationID), paramName)
    ELSE CASE s.Type = "string" -> ResolveType(w, s, <<>>, <<>>)
           [] s.Type = "integer" ->
                Ret(w, IF s.Format \in { "int64", "int32" }
                       THEN goIntegerType(s.Format) ELSE <<"i", "n", "t">>)
           [] s.Type = "number" -> Ret(w, <<"f", "l", "o", "a", "t", "6", "4">>)
           [] s.Type = "boolean" -> Ret(w, <<"b", "o", "o", "l">>)
           [] s.Type = "array" ->
                LET item == schemaToGoType(w, s.Items, <<>>, <<>>)
                IN  Ret(item.w, strSlice \o item.ret)
           [] OTHER -> Ret(w, strAny)

\* The statements of Generate in the order of the source; "collect" stands
\* for the pre-scan and the reserved names, and each later step for one
\* if-block of the function.
GenerateSteps ==
    << "collect", "resolveNames", "router", "types", "server", "strictTypes",
       "strictAdapter", "client", "spec", "done" >>

\* A faulty order of Generate: the types target runs before ResolveNames.
StepAfterTypesFirst(step) ==
    CASE step = "collect" -> "types"
      [] step = "types" -> "resolveNames"
      [] step = "resolveNames" -> "router"
      [] step = "router" -> "server"
      [] OTHER -> LET k == CHOOSE i \in 1..Len(GenerateSteps) : GenerateSteps[i] = step
                  IN  GenerateSteps[k + 1]

\* The step of Generate that follows step.
StepAfter(step) ==
    LET k == CHOOSE i \in 1..Len(GenerateSteps) : GenerateSteps[i] = step
    IN  GenerateSteps[k + 1]

\* The steps in which a target builds its data with a resolver session, the
\* target each belongs to, and the position inside the target's loop.
SessionSteps == { "types", "server", "strictTypes", "strictAdapter" }

TargetOf(step) ==
    CASE step = "types" -> "types"
      [] step = "server" -> "server"
      [] step \in { "strictTypes", "strictAdapter" } -> "strict-server"
      [] OTHER -> step

Running(step) ==
    CASE step = "types" -> "types.run"
      [] step = "server" -> "server.run"
      [] step = "strictTypes" -> "strictTypes.run"
      [] step = "strictAdapter" -> "strictAdapter.run"

StepOf(position) ==
    CASE position = "types.run" -> "types"
      [] position = "server.run" -> "server"
      [] position = "strictTypes.run" -> "strictTypes"
      [] position = "strictAdapter.run" -> "strictAdapter"

RunningPositions == { Running(step) : step \in SessionSteps }

\* The session of the server and strict-server targets: a nil import
\* mapping and the run's registry.
ServerTargetResolver == NewTypeResolverWithRegistry(GenTypesConfig, NilMapping)

\* The session of the types target: it shares the run's registry and can look
\* the named schemas up.
TypesTargetResolver == NewTypeResolverWithSchemaLookup(GenTypesConfig, NilMapping)

TargetResolver(step) ==
    IF step = "types" THEN TypesTargetResolver ELSE ServerTargetResolver

GenInit ==
    /\ pc = "collect"
    /\ doc \in GenDocs
    /\ pending = collectEnums(doc)
    /\ registry = NewEnumRegistry
    /\ sessions = <<>>
    /\ ncalls = 0
    /\ last = NoCall
    /\ resolved = 0
    /\ config \in GenConfigs
    /\ first = EmptyMap

\* g.collectEnums(spec), one CollectEnum call.
GenCollectEnum ==
    /\ pc = "collect"
    /\ pending # <<>>
    /\ registry' = CollectEnum(registry, pending[1].fieldName, pending[1].parentName,
                               pending[1].values)
    /\ pending' = Tail(pending)
    /\ UNCHANGED << pc, sessions, ncalls, last, resolved, config, doc, first >>

\* The pre-scan is over; the names of the schemas and of the operations are
\* reserved (AddReservedNames, twice).
GenAddReservedNames ==
    /\ pc = "collect"
    /\ pending = <<>>
    /\ pc' = StepAfter(pc)
    /\ UNCHANGED << pending, registry, sessions, ncalls, last, resolved, config, doc, first >>

\* g.registry.ResolveNames(); g.resolverState.SetRegistry(g.registry).
GenResolveNames ==
    /\ pc = "resolveNames"
    /\ \E ord \in Orders : registry' = ResolveNames(registry, ord)
    /\ resolved' = resolved + 1
    /\ pc' = StepAfter(pc)
    /\ UNCHANGED << pending, sessions, ncalls, last, config, doc, first >>

\* A step that renders a template without a resolver session of its own:
\* the echo router, the client, the embedded spec.  It is skipped when not
\* configured; rendering or formatting may fail, and Generate returns.
GenRender ==
    /\ pc \in { "router", "client", "spec" }
    /\ LET wanted ==
               IF pc = "router"
               THEN /\ config.ServerFramework = "echo"
                    /\ (HasTarget(config, "server") \/ HasTarget(config, "strict-server"))
               ELSE HasTarget(config, pc)
       IN  \/ pc' = StepAfter(pc)
           \/ wanted /\ pc' = "failed"
    /\ UNCHANGED << pending, registry, sessions, ncalls, last, resolved, config, doc, first >>

\* A target that is not configured is skipped.
GenSkipTarget ==
    /\ pc \in SessionSteps
    /\ ~HasTarget(config, TargetOf(pc))
    /\ pc' = StepAfter(pc)
    /\ UNCHANGED << pending, registry, sessions, ncalls, last, resolved, config, doc, first >>

\* A configured target starts: New fails on an unsupported framework and
\* Generate returns the error; otherwise the target creates its session.
GenStartTarget ==
    /\ pc \in SessionSteps
    /\ HasTarget(config, TargetOf(pc))
    /\ IF pc \in { "server", "strictTypes" } /\ ~SupportedFramework(config.ServerFramework)
       THEN /\ pc' = "failed"
            /\ UNCHANGED << pending, sessions >>
       ELSE /\ sessions' = Append(sessions, TargetResolver(pc))
            /\ pending' = IF pc = "types" THEN typesCalls(doc.Schemas)
                          ELSE serverCalls(doc.Operations)
            /\ pc' = Running(pc)
    /\ UNCHANGED << registry, ncalls, last, resolved, config, doc, first >>

\* The target's loop resolves its next node with the target's session.
GenResolve ==
    /\ pc \in RunningPositions
    /\ pending # <<>>
    /\ \E ord \in OrdersOf(pending[1].s) :
         LET cur == Len(sessions)
             c == pending[1]
             w == World(sessions[cur], registry, ord)
             res == IF pc = "types.run"
                    THEN ResolveType(w, c.s, c.parentName, c.fieldName)
                    ELSE schemaToGoType(w, c.s, c.parentName, c.fieldName)
         IN  /\ sessions' = [ sessions EXCEPT ![cur] = res.w.r ]
             /\ registry' = res.w.reg
             /\ last' = [ op |-> IF pc = "types.run" THEN "ResolveType"
                                 ELSE "schemaToGoType",
                          sess |-> cur, call |-> c, ret |-> res.ret ]
    /\ pending' = Tail(pending)
    /\ ncalls' = ncalls + 1
    /\ UNCHANGED << pc, resolved, config, doc, first >>

\* The target's loop is over: the template is rendered and formatted, or
\* either fails and Generate returns the error.
GenEmit ==
    /\ pc \in RunningPositions
    /\ pending = <<>>
    /\ \/ pc' = StepAfter(StepOf(pc))
       \/ pc' = "failed"
    /\ UNCHANGED << pending, registry, sessions, ncalls, last, resolved, config, doc, first >>

GenNext ==
    \/ GenCollectEnum
    \/ GenAddReservedNames
    \/ GenResolveNames
    \/ GenRender
    \/ GenSkipTarget
    \/ GenStartTarget
    \/ GenResolve
    \/ GenEmit

SpecGen == GenInit /\ [][GenNext]_vars

(***************************************************************************)
(* One session resolving the nodes of a document again and again           *)
(***************************************************************************)

\* The most ResolveType calls of the session.
MaxRepeatCalls == 4

nUserPrefs == <<"U", "s", "e", "r", "P", "r", "e", "f", "s">>

\* The nodes of a document with a top-level union schema UserPrefs, the enum
\* property prefs of the schema User, the enum property status, with the
\* same values, of the schema Order, and the object property meta of the
\* schema Task, which holds such an enum too; a top-level schema is resolved
\* under ("", its name), a property under (schema name, property name).
RepeatCalls ==
    { Call(AnyOfInline, <<>>, nUserPrefs),
      Call(EnumSchema(valsPendingActive), nUser, <<"p", "r", "e", "f", "s">>),
      Call(EnumSchema(valsActivePending), nOrder, nStatus),
      Call(NestedObject, nTask, <<"m", "e", "t", "a">>) }

RepeatInit ==
    /\ pc = "session"
    /\ pending = <<>>
    /\ registry = NewEnumRegistry
    /\ sessions = <<>>
    /\ ncalls = 0
    /\ last = NoCall
    /\ resolved = 0
    /\ config = NoTargets
    /\ doc = Document(<<>>, SpecSchemas)
    /\ first = EmptyMap

\* The session is created, without or with a registry.
RepeatNewSession ==
    /\ pc = "session"
    /\ sessions = <<>>
    /\ \E r \in { NewTypeResolver(NilConfig),
                   NewTypeResolverWithImportMapping(TypesConfig("flatten", ""), ExtMapping),
                   NewTypeResolverWithRegistry(NilConfig, NilMapping) } :
         sessions' = << r >>
    /\ UNCHANGED << pc, pending, registry, ncalls, last, resolved, config, doc, first >>

\* The session resolves one node; the step records whether the session has
\* made this call before, what it returned then, and how many declarations
\* this call appended.
RepeatResolveType ==
    /\ pc = "session"
    /\ Len(sessions) = 1
    /\ ncalls < MaxRepeatCalls
    /\ \E c \in RepeatCalls : \E ord \in OrdersOf(c.s) :
         LET res == ResolveType(World(sessions[1], registry, ord),
                                c.s, c.parentName, c.fieldName)
         IN  /\ sessions' = << res.w.r >>
             /\ registry' = res.w.reg
             /\ last' = [ op |-> "ResolveType", sess |-> 1, call |-> c,
                          ret |-> res.ret,
                          repeat |-> c \in DOMAIN first,
                          appended |-> Len(res.w.r.nestedTypes)
                                         - Len(sessions[1].nestedTypes) ]
             /\ first' = IF c \in DOMAIN first THEN first ELSE MapPut(first, c, res.ret)
    /\ ncalls' = ncalls + 1
    /\ UNCHANGED << pc, pending, resolved, config, doc >>

RepeatNext ==
    \/ RepeatNewSession
    \/ RepeatResolveType

SpecRepeat == RepeatInit /\ [][RepeatNext]_vars



(***************************************************************************)
(* One session resolving the composition nodes of a document whose named   *)
(* schemas may reference themselves                                        *)
(***************************************************************************)

nNode == <<"N", "o", "d", "e">>
nSelf == <<"S", "e", "l", "f">>

\* C embeds A and declares x again, as an integer, and w.
SchemaC ==
    [ ObjectSchema(<< Prop(<<"x">>, IntegerSchema),
                      Prop(<<"w">>, EnumSchema(valsOnOff)) >>, << <<"w">> >>)
        EXCEPT !.Name = <<"C">>, !.AllOf = << RefSchema(RefTo(<<"A">>)) >> ]

\* Node refers to itself through a property and through array items.
SchemaNode ==
    [ ObjectSchema(<< Prop(<<"v">>, StringSchema("")),
                      Prop(<<"n", "e", "x", "t">>, RefSchema(RefTo(nNode))),
                      Prop(<<"k", "i", "d", "s">>, ArraySchema(RefSchema(RefTo(nNode)))) >>,
                   << <<"v">> >>)
        EXCEPT !.Name = nNode ]

\* Self lists itself among its allOf members; P and Q list each other.
SchemaSelf ==
    [ ZeroSchema EXCEPT
        !.Name = nSelf,
        !.AllOf = << RefSchema(RefTo(nSelf)),
                     ObjectSchema(<< Prop(<<"v">>, StringSchema("")) >>, <<>>) >> ]
SchemaP ==
    [ ZeroSchema EXCEPT !.Name = <<"P">>, !.AllOf = << RefSchema(RefTo(<<"Q">>)) >> ]
SchemaQ ==
    [ ZeroSchema EXCEPT
        !.Name = <<"Q">>,
        !.AllOf = << RefSchema(RefTo(<<"P">>)),
                     ObjectSchema(<< Prop(<<"q">>, IntegerSchema) >>, <<>>) >> ]

\* The documents: without a cycle, with a cycle through properties, and with
\* cycles through allOf members.
ComposeDocs ==
    { Document(<<>>, << SchemaA, SchemaB, SchemaC >>),
      Document(<<>>, << SchemaA, SchemaNode >>),
      Document(<<>>, << SchemaSelf, SchemaP, SchemaQ >>) }

\* allOf of references to the named schemas, followed by the inline members.
RECURSIVE RefSchemas(_)
RefSchemas(names) ==
    IF names = <<>> THEN <<>>
    ELSE << RefSchema(RefTo(names[1])) >> \o RefSchemas(Tail(names))

AllOfOf(names, inline) == [ ZeroSchema EXCEPT !.AllOf = RefSchemas(names) \o inline ]

\* allOf = [{x: string}, {x: integer}].
AllOfDup ==
    AllOfOf(<<>>, << ObjectSchema(<< Prop(<<"x">>, StringSchema("")) >>, <<>>),
                     ObjectSchema(<< Prop(<<"x">>, IntegerSchema) >>, <<>>) >>)

\* allOf = [C, B, {y: string, x: boolean}]: x is declared by A (through C),
\* by C and by the inline member, y by B and by the inline member.
AllOfChain ==
    AllOfOf(<< <<"C">>, <<"B">> >>,
            << ObjectSchema(<< Prop(<<"y">>, StringSchema("")),
                               Prop(<<"x">>, [ ZeroSchema EXCEPT !.Type = "boolean" ]) >>,
                            << <<"y">> >>) >>)

\* oneOf = [Cat, Dog] where the mapping names Cat twice and names Dog by a
\* reference that differs from the variant's in case only.
OneOfAlias ==
    [ ZeroSchema EXCEPT
        !.OneOf = << RefSchema(RefTo(<<"C", "a", "t">>)),
                     RefSchema(RefTo(<<"D", "o", "g">>)) >>,
        !.Discriminator =
            [ nil |-> FALSE, PropertyName |-> <<"k", "i", "n", "d">>,
              Mapping |-> Mapping(
                  [ k \in { <<"c", "a", "t">>, <<"k", "i", "t", "t", "y">>,
                            <<"d", "o", "g">> } |->
                      IF k = <<"d", "o", "g">> THEN RefTo(<<"d", "o", "g">>)
                      ELSE RefTo(<<"C", "a", "t">>) ]) ] ]

\* allOf = [{z: string; allOf: [B]}]: the inline member has an allOf chain
\* of its own.
AllOfNested ==
    AllOfOf(<<>>,
            << [ ObjectSchema(<< Prop(<<"z">>, StringSchema("")) >>, << <<"z">> >>)
                   EXCEPT !.AllOf = RefSchemas(<< <<"B">> >>) ] >>)

\* anyOf with two inline object members.
AnyOfTwoInline ==
    [ ZeroSchema EXCEPT
        !.AnyOf = << ObjectSchema(<< Prop(<<"i", "d">>, IntegerSchema) >>, <<>>),
                     ObjectSchema(<< Prop(<<"n", "a", "m", "e">>, StringSchema("")) >>,
                                  <<>>) >> ]

\* The calls of the session: composition nodes of properties, and every
\* named schema of the document under ("", its name), as the types target
\* resolves it.
ComposeCalls(spec) ==
    { Call(AllOfDup, nModel, <<"d", "u", "p">>),
      Call(AllOfChain, nModel, <<"c", "h", "a", "i", "n">>),
      Call(AllOfOf(<< nNode >>, <<>>), nModel, <<"n", "o", "d", "e">>),
      Call(AllOfOf(<< <<"P">> >>, <<>>), nModel, <<"p">>),
      Call(OneOfCatDog, <<"P", "e", "t">>, <<"a", "n", "i", "m", "a", "l">>),
      Call(OneOfAlias, <<"P", "e", "t">>, <<"a", "l", "i", "a", "s">>),
      Call(AnyOfInline, nUser, <<"p", "r", "e", "f", "s">>),
      Call(AllOfNested, nModel, <<"n", "e", "s", "t", "e", "d">>),
      Call(AnyOfTwoInline, nUser, <<"c", "o", "n", "t", "a", "c", "t">>) }
    \cup { Call(spec.Schemas[i], <<>>, spec.Schemas[i].Name) :
             i \in 1..Len(spec.Schemas) }

ComposeInit ==
    /\ pc = "session"
    /\ pending = <<>>
    /\ registry = NewEnumRegistry
    /\ sessions = <<>>
    /\ ncalls = 0
    /\ last = NoCall
    /\ resolved = 0
    /\ config = NoTargets
    /\ doc \in ComposeDocs
    /\ first = EmptyMap

\* The session is created: with a schema lookup under either allOf
\* strategy, or without one.
ComposeNewSession ==
    /\ pc = "session"
    /\ sessions = <<>>
    /\ \E r \in { NewTypeResolverWithSchemaLookup(TypesConfig("flatten", ""), NilMapping),
                   NewTypeResolverWithSchemaLookup(TypesConfig("embed", ""), NilMapping),
                   NewTypeResolverWithRegistry(TypesConfig("flatten", ""), NilMapping),
                   NewTypeResolver(NilConfig) } :
         sessions' = << r >>
    /\ pc' = "idle"
    /\ UNCHANGED << pending, registry, ncalls, last, resolved, config, doc, first >>

\* The outcome of a call made in the current state.
ComposeOutcome(c, ord) ==
    ResolveType(World(sessions[1], registry, ord), c.s, c.parentName, c.fieldName)

\* ResolveType is called and its body runs: the call is on the stack with
\* what the body has computed.
ComposeCall ==
    /\ pc = "idle"
    /\ ncalls < MaxCalls
    /\ \E c \in ComposeCalls(doc) : \E ord \in OrdersOf(c.s) :
         pending' = << [ call |-> c, ord |-> ord, outcome |-> ComposeOutcome(c, ord) ] >>
    /\ pc' = "resolving"
    /\ UNCHANGED << registry, sessions, ncalls, last, resolved, config, doc, first >>

\* The call returns.
ComposeReturn ==
    /\ pc = "resolving"
    /\ ~pending[1].outcome.w.overflow
    /\ sessions' = << pending[1].outcome.w.r >>
    /\ registry' = pending[1].outcome.w.reg
    /\ last' = [ op |-> "ResolveType", sess |-> 1, call |-> pending[1].call,
                 ret |-> pending[1].outcome.ret ]
    /\ ncalls' = ncalls + 1
    /\ pending' = <<>>
    /\ pc' = "idle"
    /\ UNCHANGED << resolved, config, doc, first >>

\* The recursion of the call does not end: the goroutine's stack is used up
\* and the run is over.
ComposeStackOverflow ==
    /\ pc = "resolving"
    /\ pending[1].outcome.w.overflow
    /\ pc' = "overflow"
    /\ UNCHANGED << pending, registry, sessions, ncalls, last, resolved, config, doc,
                    first >>

ComposeNext ==
    \/ ComposeNewSession
    \/ ComposeCall
    \/ ComposeReturn
    \/ ComposeStackOverflow

SpecCompose == ComposeInit /\ [][ComposeNext]_vars

\* A call that can return does return.
SpecComposeFair == SpecCompose /\ WF_vars(ComposeReturn)

(***************************************************************************)
(* The identifier normalizer applied to one name                           *)
(***************************************************************************)

\* The longest name drawn character by character.
MaxNameLen == 4

\* The characters names are drawn from: lower-case and upper-case letters
\* that spell the initialisms ID, UI and UID, a digit and two separators.
NameChars == { "i", "d", "u", "I", "D", "2", "_", "." }

\* The names PascalCase is applied to: every string over NameChars of at
\* most MaxNameLen characters, and the names of the test table.
PascalInputs ==
    UNION { [ 1..n -> NameChars ] : n \in 0..MaxNameLen }
    \cup { <<"p", "e", "t", "I", "d">>,
           <<"h", "t", "t", "p", "_", "u", "r", "l">>,
           <<"A", "B", "C">>,
           <<"h", "e", "l", "l", "o", " ", "w", "o", "r", "l", "d">>,
           <<"l", "i", "s", "t", "-", "a", "p", "i", "_", "k", "e", "y", "s">> }

PascalInit ==
    /\ pc = "input"
    /\ pending \in PascalInputs
    /\ registry = NewEnumRegistry
    /\ sessions = <<>>
    /\ ncalls = 0
    /\ last = NoCall
    /\ resolved = 0
    /\ config = NoTargets
    /\ doc = Document(<<>>, <<>>)
    /\ first = EmptyMap

\* PascalCase is called on the name.
DoPascalCase ==
    /\ pc = "input"
    /\ last' = [ op |-> "PascalCase", s |-> pending, ret |-> PascalCase(pending) ]
    /\ pc' = "named"
    /\ UNCHANGED << pending, registry, sessions, ncalls, resolved, config, doc, first >>

PascalNext == DoPascalCase

SpecPascal == PascalInit /\ [][PascalNext]_vars

(***************************************************************************)
(* The registry collecting a list of usages and naming their value sets    *)
(***************************************************************************)

\* The most usages collected in one run.
MaxUsages == 3

nKind == <<"k", "i", "n", "d">>

\* The usages a document may hold: three field names, two value sets.
UsagePool ==
    { Usage(f, nTask, v) : f \in { nState, nStatus, nKind },
                           v \in { valsPendingActive, valsLowHigh } }

NamesInit ==
    /\ pc = "collect"
    /\ pending \in UNION { [ 1..n -> UsagePool ] : n \in 0..MaxUsages }
    /\ registry = NewEnumRegistry
    /\ sessions = <<>>
    /\ ncalls = 0
    /\ last = NoCall
    /\ resolved = 0
    /\ config = NoTargets
    /\ doc = Document(<<>>, <<>>)
    /\ first = EmptyMap

NamesCollectEnum ==
    /\ pc = "collect"
    /\ pending # <<>>
    /\ registry' = CollectEnum(registry, pending[1].fieldName, pending[1].parentName,
                               pending[1].values)
    /\ pending' = Tail(pending)
    /\ UNCHANGED << pc, sessions, ncalls, last, resolved, config, doc, first >>

NamesResolveNames ==
    /\ pc = "collect"
    /\ pending = <<>>
    /\ \E ord \in Orders :
         /\ registry' = ResolveNames(registry, ord)
         /\ last' = [ op |-> "ResolveNames", ord |-> ord ]
    /\ pc' = "frozen"
    /\ resolved' = resolved + 1
    /\ UNCHANGED << pending, sessions, ncalls, config, doc, first >>

NamesNext ==
    \/ NamesCollectEnum
    \/ NamesResolveNames

SpecNames == NamesInit /\ [][NamesNext]_vars

(***************************************************************************)
(* Request middleware (middleware.go, context.go, errors.go)               *)
(*                                                                         *)
(* The middleware m is the OpenAPI document doc and the Options config.    *)
(* One step serves one request; last holds what the step did: the          *)
(* responses written, the calls of the next handler and the request it     *)
(* saw, and the security handlers invoked.                                 *)
(***************************************************************************)

\* A nil *v3.Operation, a nil *SecurityContext field, a nil error.
NilOperation == [ nil |-> TRUE ]
NilAuth == [ nil |-> TRUE ]
NilError == [ nil |-> TRUE ]

\* A nil []*base.SecurityRequirement: the operation declares no security
\* field of its own.
NilSecurity == [ nil |-> TRUE, reqs |-> <<>> ]
Security(reqs) == [ nil |-> FALSE, reqs |-> reqs ]

\* One security requirement: the ordered map scheme name -> scopes.
Requirement(schemes) ==
    [ k \in 1..Len(schemes) |-> [ Key |-> schemes[k], Value |-> <<>> ] ]

MwOperation(id, security) == [ nil |-> FALSE, OperationId |-> id, Security |-> security ]

\* A path item with a GET and a POST operation; the other methods are nil.
PathItem(get, post) ==
    [ Get |-> get, Post |-> post, Put |-> NilOperation, Delete |-> NilOperation,
      Patch |-> NilOperation, Head |-> NilOperation, Options |-> NilOperation,
      Trace |-> NilOperation ]

PathEntry(pattern, item) == [ Key |-> pattern, Value |-> item ]

\* The document model: the ordered path items and the global security.
MwDocument(pathItems, security) ==
    [ PathsNil |-> FALSE, PathItems |-> pathItems, Security |-> security ]

\* The zero SecurityContext.
ZeroSecurityContext ==
    [ Bearer |-> NilAuth, Basic |-> NilAuth, APIKey |-> NilAuth, OAuth2 |-> NilAuth,
      OpenIDConnect |-> NilAuth, MutualTLS |-> NilAuth ]

AuthFields == DOMAIN ZeroSecurityContext

\* What the handler of a scheme returns on success: a SecurityContext whose
\* field of the handler's kind holds the credential the handler validated.
HandlerResult(kind, schemeName) ==
    [ ZeroSecurityContext EXCEPT ![kind] = [ nil |-> FALSE, by |-> schemeName ] ]

\* Faulty variant of MergeSecurityContext: src replaces dst.
MergeSecurityContextReplace(dst, src) == src

MergeSecurityContext(dst, src) ==
    [ f \in AuthFields |-> IF ~src[f].nil THEN src[f] ELSE dst[f] ]

StatusBadRequest == 400
StatusUnauthorized == 401
StatusForbidden == 403

AuthError(statusCode, scheme) ==
    [ nil |-> FALSE, isAuthError |-> TRUE, StatusCode |-> statusCode, Scheme |-> scheme ]
NewUnauthorizedError(scheme) == AuthError(StatusUnauthorized, scheme)
NewForbiddenError(scheme) == AuthError(StatusForbidden, scheme)

\* An error that is no *AuthError.
OtherError == [ nil |-> FALSE, isAuthError |-> FALSE ]

\* handler.Handle(r, scopes): the handler of the scheme judges the
\* credentials of the request.
Handle(kind, schemeName, r) ==
    CASE r.creds[schemeName] = "ok" ->
            [ result |-> HandlerResult(kind, schemeName), err |-> NilError ]
      [] r.creds[schemeName] = "unauthorized" ->
            [ result |-> ZeroSecurityContext, err |-> NewUnauthorizedError(schemeName) ]
      [] r.creds[schemeName] = "forbidden" ->
            [ result |-> ZeroSecurityContext, err |-> NewForbiddenError(schemeName) ]
      [] OTHER ->
            [ result |-> ZeroSecurityContext, err |-> OtherError ]

\* splitPath: the parts of p between '/' characters, after one leading '/'.
RECURSIVE splitPathFrom(_, _, _)
splitPathFrom(p, parts, cur) ==
    IF p = <<>> THEN Append(parts, cur)
    ELSE IF p[1] = "/" THEN splitPathFrom(Tail(p), Append(parts, cur), <<>>)
    ELSE splitPathFrom(Tail(p), parts, Append(cur, p[1]))

splitPath(p) ==
    LET q == IF Len(p) > 0 /\ p[1] = "/" THEN Tail(p) ELSE p
    IN  IF Len(q) = 0 THEN <<>> ELSE splitPathFrom(q, <<>>, <<>>)

matchPath(pattern, path) ==
    LET patternParts == splitPath(pattern)
        pathParts == splitPath(path)
    IN  /\ Len(patternParts) = Len(pathParts)
        /\ \A i \in 1..Len(patternParts) :
             LET pp == patternParts[i]
             IN  \/ Len(pp) > 0 /\ pp[1] = "{" /\ pp[Len(pp)] = "}"
                 \/ pp = pathParts[i]

getOperation(pathItem, method) ==
    CASE method = "GET" -> pathItem.Get
      [] method = "POST" -> pathItem.Post
      [] method = "PUT" -> pathItem.Put
      [] method = "DELETE" -> pathItem.Delete
      [] method = "PATCH" -> pathItem.Patch
      [] method = "HEAD" -> pathItem.Head
      [] method = "OPTIONS" -> pathItem.Options
      [] method = "TRACE" -> pathItem.Trace
      [] OTHER -> NilOperation

\* The loop of findOperation over the path items in document order.
RECURSIVE findOperationFrom(_, _, _)
findOperationFrom(pathItems, path, method) ==
    IF pathItems = <<>> THEN NilOperation
    ELSE IF matchPath(pathItems[1].Key, path)
    THEN getOperation(pathItems[1].Value, method)
    ELSE findOperationFrom(Tail(pathItems), path, method)

findOperation(model, path, method) ==
    IF model.PathsNil THEN NilOperation
    ELSE findOperationFrom(model.PathItems, path, method)

\* A response written to w.
Written(by, status) == [ by |-> by, status |-> status ]

handleValidationError(options) ==
    IF options.ErrorHandler # "nil"
    THEN << Written("ErrorHandler", StatusBadRequest) >>
    ELSE << Written("validation_error", StatusBadRequest) >>

handleAuthError(options, err) ==
    LET authErr == IF err.isAuthError THEN err ELSE NewUnauthorizedError(<<>>)
    IN  IF options.ErrorHandler # "nil"
        THEN << Written("ErrorHandler", authErr.StatusCode) >>
        ELSE << Written("authentication_error", authErr.StatusCode) >>

\* The loop over the schemes of one requirement: acc holds secCtx,
\* allPassed, lastErr and the handler calls made so far.
RECURSIVE schemesLoop(_, _, _, _, _)
schemesLoop(options, r, pairs, alt, acc) ==
    IF pairs = <<>> THEN acc
    ELSE LET schemeName == pairs[1].Key
         IN  IF schemeName \notin DOMAIN options.Security
             THEN [ acc EXCEPT !.lastErr = NewUnauthorizedError(schemeName),
                               !.allPassed = FALSE ]
             ELSE LET h == Handle(options.Security[schemeName], schemeName, r)
                      acc1 == [ acc EXCEPT !.handled =
                                    Append(@, [ alt |-> alt, scheme |-> schemeName ]) ]
                  IN  IF ~h.err.nil
                      THEN [ acc1 EXCEPT !.lastErr = h.err, !.allPassed = FALSE ]
                      ELSE schemesLoop(options, r, Tail(pairs), alt,
                                       [ acc1 EXCEPT !.secCtx =
                                           MergeSecurityContext(@, h.result) ])

\* Faulty variant of alternativesLoop: the SecurityContext of the failed
\* alternatives is carried on into the next one.
RECURSIVE alternativesLoopShared(_, _, _, _, _)
alternativesLoopShared(options, r, secReqs, alt, acc) ==
    IF secReqs = <<>>
    THEN [ err |-> acc.lastErr, ctx |-> r.ctx, handled |-> acc.handled,
           written |-> IF ~acc.lastErr.nil THEN handleAuthError(options, acc.lastErr)
                       ELSE <<>> ]
    ELSE IF Len(secReqs[1]) = 0
    THEN [ err |-> NilError, ctx |-> r.ctx, handled |-> acc.handled, written |-> <<>> ]
    ELSE LET res == schemesLoop(options, r, secReqs[1], alt,
                                [ acc EXCEPT !.allPassed = TRUE ])
         IN  IF res.allPassed
             THEN [ err |-> NilError, ctx |-> [ nil |-> FALSE, sec |-> res.secCtx ],
                    handled |-> res.handled, written |-> <<>> ]
             ELSE alternativesLoopShared(options, r, Tail(secReqs), alt + 1, res)

\* The loop of validateSecurity over the alternative requirements: what the
\* call returns, the context it attaches to r, the handler calls it makes
\* and what it writes to w.
RECURSIVE alternativesLoop(_, _, _, _, _)
alternativesLoop(options, r, secReqs, alt, acc) ==
    IF secReqs = <<>>
    THEN [ err |-> acc.lastErr, ctx |-> r.ctx, handled |-> acc.handled,
           written |-> IF ~acc.lastErr.nil THEN handleAuthError(options, acc.lastErr)
                       ELSE <<>> ]
    ELSE IF Len(secReqs[1]) = 0
    THEN [ err |-> NilError, ctx |-> r.ctx, handled |-> acc.handled, written |-> <<>> ]
    ELSE LET res == schemesLoop(options, r, secReqs[1], alt,
                                [ acc EXCEPT !.secCtx = ZeroSecurityContext,
                                             !.allPassed = TRUE ])
         IN  IF res.allPassed
             THEN [ err |-> NilError, ctx |-> [ nil |-> FALSE, sec |-> res.secCtx ],
                    handled |-> res.handled, written |-> <<>> ]
             ELSE alternativesLoop(options, r, Tail(secReqs), alt + 1, res)

\* The requirements validateSecurity goes by: the operation's own, or the
\* document's when the operation has none of its own.
secReqsOf(model, op) == IF op.Security.nil THEN model.Security.reqs ELSE op.Security.reqs

validateSecurity(model, options, r) ==
    LET op == findOperation(model, r.path, r.method)
        pass == [ err |-> NilError, ctx |-> r.ctx, handled |-> <<>>, written |-> <<>> ]
    IN  IF model.PathsNil THEN pass
        ELSE IF op.nil THEN pass
        ELSE IF Len(secReqsOf(model, op)) = 0 THEN pass
        ELSE alternativesLoop(options, r, secReqsOf(model, op), 1,
                              [ secCtx |-> ZeroSecurityContext, allPassed |-> TRUE,
                                lastErr |-> NilError, handled |-> <<>> ])

\* The handler function Handler(next) returns, applied to r; valid is the
\* verdict of the request validator.
Handler(model, options, r, valid) ==
    IF options.ValidateRequest /\ ~valid
    THEN [ written |-> handleValidationError(options), next |-> <<>>, handled |-> <<>> ]
    ELSE LET sec == validateSecurity(model, options, r)
         IN  IF ~sec.err.nil
             THEN [ written |-> sec.written, next |-> <<>>, handled |-> sec.handled ]
             ELSE [ written |-> sec.written, next |-> << sec.ctx >>,
                    handled |-> sec.handled ]

\* Inputs of the middleware model.
pPets == <<"/", "p", "e", "t", "s">>
pPetsID == pPets \o <<"/", "{", "i", "d", "}">>
pPetsMine == pPets \o <<"/", "m", "i", "n", "e">>
pSecure == <<"/", "s", "e", "c", "u", "r", "e">>
pFlexible == <<"/", "f", "l", "e", "x", "i", "b", "l", "e">>
pKeys == <<"/", "k", "e", "y", "s">>

\* The security schemes and the kind of handler each is registered with.
SchemeKinds ==
    [ bearerAuth |-> "Bearer", apiKey |-> "APIKey", appId |-> "APIKey" ]

SchemeNames == DOMAIN SchemeKinds

opListPets == MwOperation("listPets", Security(<<>>))
opCreatePet == MwOperation("createPet", Security(<< Requirement(<< "bearerAuth" >>) >>))
opGetPet == MwOperation("getPet", Security(<< Requirement(<< "apiKey" >>) >>))
opMyPets ==
    MwOperation("myPets", Security(<< Requirement(<< "bearerAuth", "appId" >>) >>))
opAdoptMine == MwOperation("adoptMine", NilSecurity)
opSecure ==
    MwOperation("secureEndpoint", Security(<< Requirement(<< "bearerAuth", "apiKey" >>) >>))
opFlexible ==
    MwOperation("flexibleEndpoint",
                Security(<< Requirement(<< "bearerAuth", "appId" >>),
                            Requirement(<< "apiKey" >>) >>))
opKeys ==
    MwOperation("rotateKeys", Security(<< Requirement(<< "apiKey", "appId" >>) >>))
opOptional ==
    MwOperation("optionalAuth",
                Security(<< Requirement(<< "bearerAuth" >>), Requirement(<<>>) >>))

\* The documents: the one of the tests; one in which the template
\* /pets/{id} is declared before /pets/mine and one in which it is declared
\* after it, both with a global security requirement; and one without paths.
MwDocs ==
    { MwDocument(<< PathEntry(pPets, PathItem(opListPets, opCreatePet)),
                    PathEntry(pPetsID, PathItem(opGetPet, NilOperation)),
                    PathEntry(pSecure, PathItem(opSecure, opOptional)),
                    PathEntry(pFlexible, PathItem(opFlexible, NilOperation)),
                    PathEntry(pKeys, PathItem(opKeys, NilOperation)) >>,
                 NilSecurity),
      MwDocument(<< PathEntry(pPetsID, PathItem(opGetPet, NilOperation)),
                    PathEntry(pPetsMine, PathItem(opMyPets, opAdoptMine)),
                    PathEntry(pFlexible, PathItem(opFlexible, NilOperation)) >>,
                 Security(<< Requirement(<< "bearerAuth" >>) >>)),
      MwDocument(<< PathEntry(pPetsMine, PathItem(opMyPets, opAdoptMine)),
                    PathEntry(pPetsID, PathItem(opGetPet, NilOperation)),
                    PathEntry(pSecure, PathItem(opSecure, opOptional)) >>,
                 Security(<< Requirement(<< "bearerAuth" >>) >>)),
      [ PathsNil |-> TRUE, PathItems |-> <<>>, Security |-> NilSecurity ] }

\* The options: any set of registered handlers, request validation on or
\* off, no ErrorHandler or one that writes the status of the error.
MwOptions ==
    { [ Security |-> [ n \in names |-> SchemeKinds[n] ],
        ValidateRequest |-> v, ErrorHandler |-> e ] :
        names \in SUBSET SchemeNames, v \in BOOLEAN, e \in { "nil", "custom" } }

\* The requests: a path, a method and, for every scheme, what its handler
\* makes of the credentials the request carries.
MwRequests ==
    { [ path |-> p, method |-> m, creds |-> c, ctx |-> [ nil |-> TRUE ] ] :
        p \in { pPets, pPetsMine, pSecure, pFlexible, pKeys },
        m \in { "GET", "POST" },
        c \in [ bearerAuth : { "ok", "unauthorized", "error" },
                apiKey : { "ok", "forbidden" },
                appId : { "ok", "unauthorized" } ] }

\* The middleware keeps no state between requests, so one request is
\* followed: the one in flight, with the verdict the validator will give.
MwInit ==
    /\ pc = "serving"
    /\ pending \in { << [ r |-> r, valid |-> valid ] >> :
                        r \in MwRequests, valid \in BOOLEAN }
    /\ registry = NewEnumRegistry
    /\ sessions = <<>>
    /\ ncalls = 0
    /\ last = NoCall
    /\ resolved = 0
    /\ config \in MwOptions
    /\ doc \in MwDocs
    /\ first = EmptyMap

\* The request in flight is served by the handler that Handler(next)
\* returned.
ServeHTTP ==
    /\ pc = "serving"
    /\ LET r == pending[1].r
           valid == pending[1].valid
           out == Handler(doc, config, r, valid)
       IN  last' = [ op |-> "ServeHTTP", r |-> r, valid |-> valid,
                     written |-> out.written, next |-> out.next,
                     handled |-> out.handled ]
    /\ pc' = "served"
    /\ pending' = <<>>
    /\ UNCHANGED << registry, sessions, ncalls, resolved, config, doc, first >>

MwNext == ServeHTTP

SpecMw == MwInit /\ [][MwNext]_vars

(***************************************************************************)
(* The registry naming value lists whose canonical keys or names meet      *)
(***************************************************************************)

\* The most usages collected in one run.
MaxKeyUsages == 3

nPriorityHighLow == nPriority \o <<"H", "i", "g", "h", "L", "o", "w">>

sHigh == <<"h", "i", "g", "h">>
sLow == <<"l", "o", "w">>
sMid == <<"m", "i", "d">>

\* Enum literal lists: two lists of integers, {low, high}, {high, low, mid}
\* and the one string "high|low".
valsOneTwo == << IntVal(1), IntVal(2) >>
valsThree == << IntVal(3) >>
valsHighLowMid == << StrVal(sHigh), StrVal(sLow), StrVal(sMid) >>
valsHighBarLow == << StrVal(sHigh \o <<"|">> \o sLow) >>

KeyValueLists == { valsOneTwo, valsThree, valsLowHigh, valsHighLowMid, valsHighBarLow }

\* The schema a usage comes from: the i-th schema of the document, with one
\* enum property.
KeySchema(i, fieldName, values) ==
    [ ObjectSchema(<< Prop(fieldName, EnumSchema(values)) >>, <<>>)
        EXCEPT !.Name = nTask \o << Alphabet[Ord["0"] + i] >> ]

\* The documents: up to MaxKeyUsages schemas, each with one enum property
\* drawn from two field names and five value lists.
KeyDocs ==
    UNION { { Document(<<>>, [ i \in 1..n |-> KeySchema(i, f[i], v[i]) ]) :
                f \in [ 1..n -> { nPriority, nPriorityHighLow } ],
                v \in [ 1..n -> KeyValueLists ] } :
            n \in 0..MaxKeyUsages }

KeysInit ==
    /\ pc = "collect"
    /\ doc \in KeyDocs
    /\ pending = collectEnums(doc)
    /\ registry = NewEnumRegistry
    /\ sessions = <<>>
    /\ ncalls = 0
    /\ last = NoCall
    /\ resolved = 0
    /\ config = NoTargets
    /\ first = EmptyMap

SpecKeys == KeysInit /\ [][NamesNext]_vars

(***************************************************************************)
(* Two sessions sharing one registry, resolving enums with the steps of    *)
(* resolveEnum interleaved                                                 *)
(***************************************************************************)

\* The most resolveEnum calls the two sessions begin.
MaxRaceCalls == 3

\* The registry before the sessions start: empty, so that the name falls
\* back to the field name, or with the values of Order.status bound.
RaceRegistries ==
    { NewEnumRegistry,
      ResolveNames(CollectEnum(NewEnumRegistry, nStatus, nOrder, valsActivePending), "asc") }

RaceCalls ==
    { Call(EnumSchema(valsActivePending), nOrder, nStatus),
      Call(EnumSchema(valsPendingActive), nUser, nStatus),
      Call(EnumSchema(valsLowHigh), nTask, nPriority) }

RaceSessions == { 1, 2 }

\* pc[i] is the position of session i inside resolveEnum, pending[i] holds
\* the locals of its call and last is the log of the steps taken.
RaceInit ==
    /\ pc = [ i \in RaceSessions |-> "idle" ]
    /\ pending = [ i \in RaceSessions |-> NoCall ]
    /\ registry \in RaceRegistries
    /\ sessions = [ i \in RaceSessions |->
                      NewTypeResolverWithRegistry(NilConfig, NilMapping) ]
    /\ ncalls = 0
    /\ last = <<>>
    /\ resolved = 1
    /\ config = NoTargets
    /\ doc = Document(<<>>, <<>>)
    /\ first = EmptyMap

RaceEvent(i, step, name) == [ sess |-> i, step |-> step, name |-> name ]

\* Session i enters resolveEnum, reads the canonical name and asks the
\* registry whether the name is generated; if it is, the call returns.
RaceCheck(i) ==
    /\ pc[i] = "idle"
    /\ ncalls < MaxRaceCalls
    /\ \E c \in RaceCalls :
         LET got == GetCanonicalName(registry, c.s.Enum)
             name == IF got.ok THEN got.name ELSE PascalCase(c.fieldName)
         IN  /\ pending' = [ pending EXCEPT ![i] = [ op |-> "resolveEnum", call |-> c,
                                                    name |-> name ] ]
             /\ pc' = [ pc EXCEPT ![i] = IF IsGenerated(registry, name)
                                         THEN "idle" ELSE "append" ]
             /\ last' = Append(last, RaceEvent(i, "check", name))
    /\ ncalls' = ncalls + 1
    /\ UNCHANGED << registry, sessions, resolved, config, doc, first >>

\* Session i tests its own seen set; if the name is new it marks it seen and
\* appends the declaration built from a copy of the node.
RaceAppend(i) ==
    /\ pc[i] = "append"
    /\ LET name == pending[i].name
           s == pending[i].call.s
           enumSchema == [ s EXCEPT !.Name = name ]
           rt == [ ResolvedType(name, enumSchema) EXCEPT !.IsEnum = TRUE ]
       IN  IF name \in sessions[i].seen
           THEN /\ pc' = [ pc EXCEPT ![i] = "idle" ]
                /\ UNCHANGED << sessions, last >>
           ELSE /\ sessions' = [ sessions EXCEPT ![i] =
                                   [ @ EXCEPT !.seen = @ \cup { name },
                                              !.nestedTypes = Append(@, rt) ] ]
                /\ pc' = [ pc EXCEPT ![i] = "mark" ]
                /\ last' = Append(last, RaceEvent(i, "append", name))
    /\ UNCHANGED << pending, registry, ncalls, resolved, config, doc, first >>

\* Session i records the declaration in the registry and returns.
RaceMark(i) ==
    /\ pc[i] = "mark"
    /\ LET name == pending[i].name
           k == Len(sessions[i].nestedTypes)
       IN  /\ registry' = MarkGenerated(registry, name, sessions[i].nestedTypes[k])
           /\ last' = Append(last, RaceEvent(i, "mark", name))
    /\ pc' = [ pc EXCEPT ![i] = "idle" ]
    /\ UNCHANGED << pending, sessions, ncalls, resolved, config, doc, first >>

RaceNext ==
    \/ \E i \in RaceSessions : RaceCheck(i)
    \/ \E i \in RaceSessions : RaceAppend(i)
    \/ \E i \in RaceSessions : RaceMark(i)

SpecRace == RaceInit /\ [][RaceNext]_vars

(***************************************************************************)
(* The resolver over memory: schema nodes as structs at addresses          *)
(*                                                                         *)
(* The source graph is a set of model.Schema structs that point at each    *)
(* other; the resolver receives pointers into it.  Here a struct is a cell *)
(* of mem.obj, a pointer is the index of the cell (0 is nil), and the      *)
(* slices the resolver writes or appends to (Properties, Required, AllOf)  *)
(* are headers [arr, len] over the backing arrays of mem.arr, whose length *)
(* is the capacity.  Enum, OneOf and AnyOf are only read and are kept as   *)
(* sequences.  A struct copy ("x := *s") copies the headers and shares the *)
(* arrays.                                                                 *)
(***************************************************************************)

NilSlice == [ arr |-> 0, len |-> 0 ]

EmptyMemory == [ obj |-> <<>>, arr |-> <<>> ]

\* The zero value of model.Property.
ZeroProperty == [ Name |-> <<>>, Schema |-> 0 ]

\* A new struct holding cell: the memory and the pointer.
Alloc(mem, cell) ==
    [ mem |-> [ mem EXCEPT !.obj = Append(@, cell) ], at |-> Len(mem.obj) + 1 ]

Cap(mem, slice) == IF slice.arr = 0 THEN 0 ELSE Len(mem.arr[slice.arr])

Elems(mem, slice) ==
    IF slice.arr = 0 THEN <<>> ELSE SubSeq(mem.arr[slice.arr], 1, slice.len)

\* append(slice, v): within capacity the element is written into the shared
\* backing array; otherwise the elements move to a new array of twice the
\* length.
AppendSlice(mem, slice, v, zero) ==
    IF slice.len < Cap(mem, slice)
    THEN [ mem |-> [ mem EXCEPT !.arr[slice.arr][slice.len + 1] = v ],
           slice |-> [ slice EXCEPT !.len = @ + 1 ] ]
    ELSE LET newcap == IF slice.len = 0 THEN 1 ELSE 2 * slice.len
             grown == Elems(mem, slice) \o << v >>
                        \o [ k \in 1..(newcap - slice.len - 1) |-> zero ]
         IN  [ mem |-> [ mem EXCEPT !.arr = Append(@, grown) ],
               slice |-> [ arr |-> Len(mem.arr) + 1, len |-> slice.len + 1 ] ]

\* The nodes a schema node points at: items, map values, the schemas of the
\* properties and the members of the compositions.
Kids(s) ==
    << s.Items, s.AdditionalProperties >>
      \o [ k \in 1..Len(s.Properties) |-> s.Properties[k].Schema ]
      \o s.OneOf \o s.AnyOf \o s.AllOf

\* The structs and the backing arrays of the graph of a schema.
RECURSIVE Structs(_)
RECURSIVE StructsAll(_)
StructsAll(ss) == IF ss = <<>> THEN 0 ELSE Structs(ss[1]) + StructsAll(Tail(ss))
Structs(s) == IF s.nil THEN 0 ELSE 1 + StructsAll(Kids(s))

OwnArrays(s) ==
    << s.Properties, s.Required, s.AllOf >>

\* How many of the first n slices are not empty and so have an array.
NonEmpty(slices, n) == Cardinality({ k \in 1..n : Len(slices[k]) > 0 })

RECURSIVE Arrays(_)
RECURSIVE ArraysAll(_)
ArraysAll(ss) == IF ss = <<>> THEN 0 ELSE Arrays(ss[1]) + ArraysAll(Tail(ss))
Arrays(s) == IF s.nil THEN 0 ELSE ArraysAll(Kids(s)) + NonEmpty(OwnArrays(s), 3)

\* The pointer of the i-th of the nodes ss when they are laid out one after
\* the other, each after the nodes it points at, behind ob structs.
PointerOf(ss, i, ob) ==
    IF ss[i].nil THEN 0 ELSE ob + StructsAll(SubSeq(ss, 1, i))

\* The parsed graph of the schema s laid out in memory behind ob structs and
\* ab arrays, children first, every backing array with spare slots of
\* capacity left by the parser.
RECURSIVE Load(_, _, _, _)
RECURSIVE LoadAll(_, _, _, _)
LoadAll(ss, ob, ab, spare) ==
    IF ss = <<>> THEN EmptyMemory
    ELSE LET a == Load(ss[1], ob, ab, spare)
             b == LoadAll(Tail(ss), ob + Structs(ss[1]), ab + Arrays(ss[1]), spare)
         IN  [ obj |-> a.obj \o b.obj, arr |-> a.arr \o b.arr ]

Load(s, ob, ab, spare) ==
    IF s.nil THEN EmptyMemory
    ELSE LET kids == Kids(s)
             below == LoadAll(kids, ob, ab, spare)
             np == Len(s.Properties)
             at(i) == PointerOf(kids, i, ob)
             own == OwnArrays(s)
             slice(n) == IF Len(own[n]) = 0 THEN NilSlice
                         ELSE [ arr |-> ab + ArraysAll(kids) + NonEmpty(own, n),
                                len |-> Len(own[n]) ]
             props == [ k \in 1..np |->
                          [ Name |-> s.Properties[k].Name, Schema |-> at(2 + k) ] ]
             oneOf == [ k \in 1..Len(s.OneOf) |-> at(2 + np + k) ]
             anyOf == [ k \in 1..Len(s.AnyOf) |-> at(2 + np + Len(s.OneOf) + k) ]
             allOf == [ k \in 1..Len(s.AllOf) |->
                          at(2 + np + Len(s.OneOf) + Len(s.AnyOf) + k) ]
             cell == [ s EXCEPT !.Properties = slice(1),
                                !.Required = slice(2),
                                !.AllOf = slice(3),
                                !.Items = at(1),
                                !.AdditionalProperties = at(2),
                                !.OneOf = oneOf,
                                !.AnyOf = anyOf ]
             arrays ==
                 (IF np = 0 THEN <<>>
                  ELSE << props \o [ k \in 1..spare |-> ZeroProperty ] >>)
                 \o (IF Len(s.Required) = 0 THEN <<>>
                     ELSE << s.Required \o [ k \in 1..spare |-> <<>> ] >>)
                 \o (IF Len(s.AllOf) = 0 THEN <<>>
                     ELSE << allOf \o [ k \in 1..spare |-> 0 ] >>)
         IN  [ obj |-> below.obj \o << cell >>, arr |-> below.arr \o arrays ]

\* The schema the pointer denotes, read back from memory.
RECURSIVE ValueAt(_, _)
ValueAt(mem, at) ==
    IF at = 0 THEN NilSchema
    ELSE LET c == mem.obj[at]
             props == Elems(mem, c.Properties)
             allOf == Elems(mem, c.AllOf)
         IN  [ c EXCEPT !.Properties = [ k \in 1..Len(props) |->
                                          [ Name |-> props[k].Name,
                                            Schema |-> ValueAt(mem, props[k].Schema) ] ],
                        !.Required = Elems(mem, c.Required),
                        !.AllOf = [ k \in 1..Len(allOf) |-> ValueAt(mem, allOf[k]) ],
                        !.Items = ValueAt(mem, c.Items),
                        !.AdditionalProperties = ValueAt(mem, c.AdditionalProperties),
                        !.OneOf = [ k \in 1..Len(c.OneOf) |-> ValueAt(mem, c.OneOf[k]) ],
                        !.AnyOf = [ k \in 1..Len(c.AnyOf) |-> ValueAt(mem, c.AnyOf[k]) ] ]

\* The world of a call over memory: the memory, the resolver, the registry,
\* the iteration order and the schema lookup as a map from the names of the
\* document's schemas to their pointers.
WorldAt(mem, r, reg, ord, names) ==
    [ mem |-> mem, r |-> r, reg |-> reg, ord |-> ord, names |-> names ]

\* r.schemaLookup(ref): nil when the document has no schema of the name.
LookupAt(names, ref) ==
    IF LastSegment(ref) \in DOMAIN names THEN names[LastSegment(ref)] ELSE 0

RECURSIVE ResolveTypeAt(_, _, _, _)
RECURSIVE resolveObjectAt(_, _, _, _)
RECURSIVE resolveUnionAt(_, _, _, _)
RECURSIVE resolveAllOfAt(_, _, _, _)
RECURSIVE objectLoopAt(_, _, _, _)
RECURSIVE unionVariantsAt(_, _, _, _, _)
RECURSIVE mergePropertiesAt(_, _, _, _)
RECURSIVE mergeLoopAt(_, _, _)
RECURSIVE flattenAt(_, _, _)

\* "for i, prop := range resolvedSchema.Properties": prop is a copy of the
\* element, its schema is resolved, and the copy is stored back at index i
\* of the array the copy shares with the source.
objectLoopAt(w, slice, i, nestedName) ==
    IF i > slice.len THEN w
    ELSE LET prop == w.mem.arr[slice.arr][i]
             w1 == ResolveTypeAt(w, prop.Schema, nestedName, prop.Name).w
             w2 == [ w1 EXCEPT !.mem.arr[slice.arr][i] = prop ]
         IN  objectLoopAt(w2, slice, i + 1, nestedName)

\* Faulty variant of resolveObjectAt: the name is set through the pointer s,
\* without the struct copy.
resolveObjectInPlaceAt(w, s, parentName, fieldName) ==
    LET c == w.mem.obj[s]
    IN  IF c.AdditionalProperties # 0
        THEN LET v == ResolveTypeAt(w, c.AdditionalProperties, parentName,
                                    fieldName \o <<"V", "a", "l", "u", "e">>)
             IN  Ret(v.w, strMapString \o v.ret)
        ELSE IF c.Properties.len = 0
        THEN Ret(w, strMapString \o strAny)
        ELSE LET nestedName == parentName \o PascalCase(fieldName)
             IN  IF nestedName \in w.r.seen
                 THEN Ret(w, nestedName)
                 ELSE LET w1 == [ MarkSeen(w, nestedName)
                                    EXCEPT !.mem.obj[s].Name = nestedName ]
                          w2 == objectLoopAt(w1, c.Properties, 1, nestedName)
                      IN  Ret(AppendNested(w2, ResolvedType(nestedName, s)),
                              nestedName)

\* resolveObject: "resolvedSchema := *s" is a new struct that shares the
\* Properties array of s; the declaration points at the new struct.
resolveObjectAt(w, s, parentName, fieldName) ==
    LET c == w.mem.obj[s]
    IN  IF c.AdditionalProperties # 0
        THEN LET v == ResolveTypeAt(w, c.AdditionalProperties, parentName,
                                    fieldName \o <<"V", "a", "l", "u", "e">>)
             IN  Ret(v.w, strMapString \o v.ret)
        ELSE IF c.Properties.len = 0
        THEN Ret(w, strMapString \o strAny)
        ELSE LET nestedName == parentName \o PascalCase(fieldName)
             IN  IF nestedName \in w.r.seen
                 THEN Ret(w, nestedName)
                 ELSE LET copy == Alloc(w.mem, [ c EXCEPT !.Name = nestedName ])
                          w1 == [ MarkSeen(w, nestedName) EXCEPT !.mem = copy.mem ]
                          w2 == objectLoopAt(w1, c.Properties, 1, nestedName)
                      IN  Ret(AppendNested(w2, ResolvedType(nestedName, copy.at)),
                              nestedName)

\* resolveEnum: "enumSchema := *s" is a new struct, named and declared.
resolveEnumAt(w, s, parentName, fieldName) ==
    LET c == w.mem.obj[s]
    IN  IF w.r.registry
        THEN LET got == GetCanonicalName(w.reg, c.Enum)
                 name == IF got.ok THEN got.name ELSE PascalCase(fieldName)
             IN  IF IsGenerated(w.reg, name) THEN Ret(w, name)
                 ELSE IF name \in w.r.seen THEN Ret(w, name)
                 ELSE LET copy == Alloc(w.mem, [ c EXCEPT !.Name = name ])
                          rt == [ ResolvedType(name, copy.at) EXCEPT !.IsEnum = TRUE ]
                          w1 == AppendNested(MarkSeen(w, name), rt)
                      IN  Ret([ w1 EXCEPT !.mem = copy.mem,
                                          !.reg = MarkGenerated(@, name, rt) ], name)
        ELSE LET enumKey == enumValuesKey(c.Enum)
                 nestedName == parentName \o PascalCase(fieldName)
             IN  IF enumKey \in DOMAIN w.r.enumValues
                 THEN Ret(w, w.r.enumValues[enumKey])
                 ELSE IF nestedName \in w.r.seen THEN Ret(w, nestedName)
                 ELSE LET copy == Alloc(w.mem, [ c EXCEPT !.Name = nestedName ])
                          rt == [ ResolvedType(nestedName, copy.at)
                                    EXCEPT !.IsEnum = TRUE ]
                          w1 == [ MarkSeen(w, nestedName)
                                    EXCEPT !.mem = copy.mem,
                                           !.r.enumValues = MapPut(@, enumKey, nestedName) ]
                      IN  Ret(AppendNested(w1, rt), nestedName)

\* The variant loop of resolveUnion; a variant keeps the member's pointer.
unionVariantsAt(w, s, schemas, nestedName, variants) ==
    IF schemas = <<>> THEN [ w |-> w, variants |-> variants ]
    ELSE LET variant == w.mem.obj[schemas[1]]
             disc == w.mem.obj[s].Discriminator
             res == IF variant.Ref # <<>>
                    THEN Ret(w, refToTypeName(variant.Ref))
                    ELSE ResolveTypeAt(w, schemas[1], nestedName,
                                       <<"V", "a", "r", "i", "a", "n", "t">>)
             discValue ==
                 IF ~disc.nil /\ ~disc.Mapping.nil
                 THEN discValueLoop(disc.Mapping.m,
                                    RangeKeys(DOMAIN disc.Mapping.m, w.ord),
                                    variant.Ref, res.ret)
                 ELSE <<>>
             v == [ Name |-> res.ret, TypeName |-> res.ret,
                    DiscValue |-> discValue, Schema |-> schemas[1] ]
         IN  unionVariantsAt(res.w, s, Tail(schemas), nestedName, Append(variants, v))

\* resolveUnion: the declaration points at the source node itself.
resolveUnionAt(w, s, parentName, fieldName) ==
    LET c == w.mem.obj[s]
        schemas == IF Len(c.OneOf) = 0 THEN c.AnyOf ELSE c.OneOf
        nestedName == parentName \o PascalCase(fieldName)
    IN  IF nestedName \in w.r.seen THEN Ret(w, nestedName)
        ELSE LET vs == unionVariantsAt(MarkSeen(w, nestedName), s, schemas,
                                       nestedName, <<>>)
                 rt == [ ResolvedType(nestedName, s)
                           EXCEPT !.IsUnion = TRUE,
                                  !.Discriminator = c.Discriminator,
                                  !.Variants = vs.variants ]
             IN  Ret(AppendNested(vs.w, rt), nestedName)

\* "merged := &model.Schema{Type: TypeObject}" with the maps of the merge.
NewMergeAt(w) ==
    LET merged == Alloc(w.mem, [ ZeroSchema EXCEPT !.Type = "object",
                                                   !.Properties = NilSlice,
                                                   !.Required = NilSlice,
                                                   !.AllOf = NilSlice,
                                                   !.Items = 0,
                                                   !.AdditionalProperties = 0 ])
    IN  [ w |-> [ w EXCEPT !.mem = merged.mem ], merged |-> merged.at,
          requiredMap |-> {}, seenProps |-> {} ]

\* "merged.Properties = append(merged.Properties, prop)".
AppendProperty(w, merged, prop) ==
    LET a == AppendSlice(w.mem, w.mem.obj[merged].Properties, prop, ZeroProperty)
    IN  [ w EXCEPT !.mem = [ a.mem EXCEPT !.obj[merged].Properties = a.slice ] ]

\* The property loops of the merges; dedup says whether seenProps is used.
mergePropertiesAt(acc, props, parentName, dedup) ==
    IF props = <<>> THEN acc
    ELSE LET prop == props[1]
         IN  IF dedup /\ prop.Name \in acc.seenProps
             THEN mergePropertiesAt(acc, Tail(props), parentName, dedup)
             ELSE LET w1 == ResolveTypeAt(acc.w, prop.Schema, parentName, prop.Name).w
                      acc1 == [ acc EXCEPT !.w = AppendProperty(w1, acc.merged, prop),
                                           !.seenProps = IF dedup THEN @ \cup {prop.Name}
                                                         ELSE @ ]
                  IN  mergePropertiesAt(acc1, Tail(props), parentName, dedup)

\* The required names and the description of the member c join the merge.
AddRequiredAt(acc, c) ==
    LET req == Elems(acc.w.mem, c.Required)
    IN  [ acc EXCEPT !.requiredMap = @ \cup { req[i] : i \in 1..Len(req) },
                     !.w.mem.obj[acc.merged].Description =
                         IF c.Description # <<>> /\ @ = <<>> THEN c.Description ELSE @ ]

\* "for req := range requiredMap { merged.Required = append(...) }".
RECURSIVE appendRequired(_, _, _)
appendRequired(mem, merged, reqs) ==
    IF reqs = <<>> THEN mem
    ELSE LET a == AppendSlice(mem, mem.obj[merged].Required, reqs[1], <<>>)
         IN  appendRequired([ a.mem EXCEPT !.obj[merged].Required = a.slice ],
                            merged, Tail(reqs))

FinishMergeAt(acc) ==
    [ acc EXCEPT !.w.mem = appendRequired(@, acc.merged,
                                          RangeKeys(acc.requiredMap, acc.w.ord)) ]

\* The schema loop of mergeAllOfSchemas: a reference member's pointer is
\* appended to merged.AllOf, an inline member's properties to
\* merged.Properties.
mergeLoopAt(acc, schemas, parentName) ==
    IF schemas = <<>> THEN acc
    ELSE LET s == schemas[1]
             c == acc.w.mem.obj[s]
         IN  IF c.Ref # <<>>
             THEN LET a == AppendSlice(acc.w.mem, acc.w.mem.obj[acc.merged].AllOf, s, 0)
                      mem1 == [ a.mem EXCEPT !.obj[acc.merged].AllOf = a.slice ]
                  IN  mergeLoopAt([ acc EXCEPT !.w.mem = mem1 ], Tail(schemas), parentName)
             ELSE LET acc1 == mergePropertiesAt(acc, Elems(acc.w.mem, c.Properties),
                                                parentName, FALSE)
                  IN  mergeLoopAt(AddRequiredAt(acc1, c), Tail(schemas), parentName)

mergeAllOfSchemasAt(w, schemas, parentName) ==
    FinishMergeAt(mergeLoopAt(NewMergeAt(w), schemas, parentName))

\* The closure flatten of flattenAllOfSchemas.
flattenAt(acc, schemas, parentName) ==
    IF schemas = <<>> THEN acc
    ELSE LET c == acc.w.mem.obj[schemas[1]]
         IN  IF c.Ref # <<>>
             THEN LET refSchema == LookupAt(acc.w.names, c.Ref)
                  IN  IF refSchema = 0
                      THEN flattenAt(acc, Tail(schemas), parentName)
                      ELSE LET rc == acc.w.mem.obj[refSchema]
                               acc1 == IF rc.AllOf.len > 0
                                       THEN flattenAt(acc, Elems(acc.w.mem, rc.AllOf),
                                                      parentName)
                                       ELSE acc
                               acc2 == mergePropertiesAt(
                                           acc1, Elems(acc1.w.mem, rc.Properties),
                                           parentName, TRUE)
                           IN  flattenAt(AddRequiredAt(acc2, rc), Tail(schemas),
                                         parentName)
             ELSE LET acc1 == mergePropertiesAt(acc, Elems(acc.w.mem, c.Properties),
                                                parentName, TRUE)
                  IN  flattenAt(AddRequiredAt(acc1, c), Tail(schemas), parentName)

flattenAllOfSchemasAt(w, schemas, parentName) ==
    FinishMergeAt(flattenAt(NewMergeAt(w), schemas, parentName))

\* resolveAllOf: the flattened declaration points at the merged struct; the
\* embedded one at "resolvedSchema := *s", a new struct that the merge, if
\* there is one, overwrites with "*merged".
resolveAllOfAt(w, s, parentName, fieldName) ==
    LET c == w.mem.obj[s]
        members == Elems(w.mem, c.AllOf)
        nestedName == parentName \o PascalCase(fieldName)
        shouldFlatten == /\ ~w.r.cfg.nil
                         /\ w.r.cfg.AllOfStrategy = "flatten"
                         /\ w.r.schemaLookup
        allRefs == \A i \in 1..Len(members) : w.mem.obj[members[i]].Ref # <<>>
    IN  IF nestedName \in w.r.seen THEN Ret(w, nestedName)
        ELSE LET w1 == MarkSeen(w, nestedName)
             IN  IF shouldFlatten
                 THEN LET acc == flattenAllOfSchemasAt(w1, members, nestedName)
                          w2 == [ acc.w EXCEPT !.mem.obj[acc.merged].Name = nestedName ]
                      IN  Ret(AppendNested(w2, ResolvedType(nestedName, acc.merged)),
                              nestedName)
                 ELSE LET copy == Alloc(w1.mem, [ c EXCEPT !.Name = nestedName ])
                          w2 == [ w1 EXCEPT !.mem = copy.mem ]
                      IN  IF allRefs
                          THEN LET rt == [ ResolvedType(nestedName, copy.at)
                                             EXCEPT !.IsAllOf = c.AllOf.len > 0 ]
                               IN  Ret(AppendNested(w2, rt), nestedName)
                          ELSE LET acc == mergeAllOfSchemasAt(w2, members, nestedName)
                                   m == acc.w.mem.obj[acc.merged]
                                   w3 == [ acc.w EXCEPT !.mem.obj[copy.at] =
                                             [ m EXCEPT !.Name = nestedName ] ]
                                   rt == [ ResolvedType(nestedName, copy.at)
                                             EXCEPT !.IsAllOf = m.AllOf.len > 0 ]
                               IN  Ret(AppendNested(w3, rt), nestedName)

\* ResolveType on the pointer s.
ResolveTypeAt(w, s, parentName, fieldName) ==
    IF s = 0 THEN Ret(w, strAny)
    ELSE LET c == w.mem.obj[s]
         IN  IF c.Ref # <<>> THEN resolveRef(w, c)
             ELSE IF Len(c.OneOf) > 0 \/ Len(c.AnyOf) > 0
             THEN resolveUnionAt(w, s, parentName, fieldName)
             ELSE IF c.AllOf.len > 0 THEN resolveAllOfAt(w, s, parentName, fieldName)
             ELSE IF Len(c.Enum) > 0 /\ parentName # <<>>
             THEN resolveEnumAt(w, s, parentName, fieldName)
             ELSE CASE c.Type = "string" -> Ret(w, goStringType(w.r, c.Format))
                    [] c.Type = "integer" -> Ret(w, goIntegerType(c.Format))
                    [] c.Type = "number" -> Ret(w, goNumberType(c.Format))
                    [] c.Type = "boolean" -> Ret(w, <<"b", "o", "o", "l">>)
                    [] c.Type = "array" ->
                         LET item == ResolveTypeAt(w, c.Items, parentName,
                                                   fieldName \o <<"I", "t", "e", "m">>)
                         IN  Ret(item.w, strSlice \o item.ret)
                    [] c.Type = "object" -> resolveObjectAt(w, s, parentName, fieldName)
                    [] OTHER -> Ret(w, strAny)

(***************************************************************************)
(* Sessions resolving the nodes of a document held in memory               *)
(***************************************************************************)

\* The most ResolveType calls the sessions make.
MaxHeapCalls == 2

\* The spare slots of capacity the parser may leave in a backing array.
MaxSpare == 1

\* The named schemas of the document; no schema reaches itself.
HeapSchemas == << SchemaA, SchemaB, SchemaC >>

\* The property nodes of the documents; a session resolves these and every
\* named schema under ("", its name).
HeapNodes ==
    { << Call(NestedObject, nUser, <<"p", "r", "e", "f", "s">>),
         Call(EnumSchema(valsActivePending), nOrder, nStatus),
         Call(ArraySchema(EnumSchema(valsLowHigh)), nTask, <<"t", "a", "g", "s">>),
         Call(MapSchema(NestedObject), nUser, <<"m", "e", "t", "a">>) >>,
      << Call(AllOfAB, nModel, nCombined),
         Call(AllOfMixed, nModel, <<"m", "i", "x", "e", "d">>),
         Call(AllOfChain, nModel, <<"c", "h", "a", "i", "n">>),
         Call(AllOfNested, nModel, <<"n", "e", "s", "t", "e", "d">>) >>,
      << Call(AnyOfTwoInline, nUser, <<"c", "o", "n", "t", "a", "c", "t">>),
         Call(OneOfAlias, <<"P", "e", "t">>, <<"a", "l", "i", "a", "s">>),
         Call(AllOfDup, nModel, <<"d", "u", "p">>) >> }

\* The document parsed into memory: the named schemas first, then the
\* property nodes; names maps a schema name to its pointer and nodes lists
\* the calls with the pointer of each node.
LoadDocument(calls, spare) ==
    LET ns == Len(HeapSchemas)
        all == HeapSchemas \o [ k \in 1..Len(calls) |-> calls[k].s ]
    IN  [ Operations |-> <<>>, Schemas |-> HeapSchemas,
          mem |-> LoadAll(all, 0, 0, spare),
          names |-> [ n \in { HeapSchemas[k].Name : k \in 1..ns } |->
                        PointerOf(all, CHOOSE k \in 1..ns : HeapSchemas[k].Name = n, 0) ],
          nodes |-> { [ call |-> calls[k], at |-> PointerOf(all, ns + k, 0) ] :
                        k \in 1..Len(calls) }
                    \cup { [ call |-> Call(HeapSchemas[k], <<>>, HeapSchemas[k].Name),
                             at |-> PointerOf(all, k, 0) ] : k \in 1..ns } ]

\* One session of each constructor and a registry that has bound the values
\* of Order.status; doc.mem is the memory and first keeps the memory as the
\* parser left it.
HeapInit ==
    /\ pc = "session"
    /\ pending = <<>>
    /\ registry = ResolveNames(CollectEnum(NewEnumRegistry, nStatus, nOrder,
                                           valsActivePending), "asc")
    /\ sessions = << NewTypeResolver(NilConfig),
                     NewTypeResolverWithRegistry(NilConfig, NilMapping),
                     NewTypeResolverWithSchemaLookup(TypesConfig("flatten", ""),
                                                     NilMapping) >>
    /\ ncalls = 0
    /\ last = NoCall
    /\ resolved = 1
    /\ config = NoTargets
    /\ \E calls \in HeapNodes : \E spare \in 0..MaxSpare : doc = LoadDocument(calls, spare)
    /\ first = doc.mem

\* Session i resolves one node through its pointer.
HeapResolveType ==
    /\ ncalls < MaxHeapCalls
    /\ \E i \in 1..Len(sessions) : \E n \in doc.nodes : \E ord \in OrdersOf(n.call.s) :
         LET res == ResolveTypeAt(WorldAt(doc.mem, sessions[i], registry, ord, doc.names),
                                  n.at, n.call.parentName, n.call.fieldName)
         IN  /\ doc' = [ doc EXCEPT !.mem = res.w.mem ]
             /\ sessions' = [ sessions EXCEPT ![i] = res.w.r ]
             /\ registry' = res.w.reg
             /\ last' = [ op |-> "ResolveType", sess |-> i, call |-> n.call,
                          at |-> n.at, ord |-> ord, ret |-> res.ret ]
    /\ ncalls' = ncalls + 1
    /\ UNCHANGED << pc, pending, resolved, config, first >>

HeapNext == HeapResolveType

SpecHeap == HeapInit /\ [][HeapNext]_vars

(***************************************************************************)
(* Properties of the resolver and the registry, checked under Spec         *)
(***************************************************************************)

WasCall == last.op = "ResolveType"

\* The names of the declarations of a session, and of its enum declarations.
DeclNames(r) == { r.nestedTypes[k].Name : k \in 1..Len(r.nestedTypes) }
EnumDeclNames(r) ==
    { r.nestedTypes[k].Name : k \in { j \in 1..Len(r.nestedTypes) : r.nestedTypes[j].IsEnum } }

\* The node is an enum node: no $ref, no composition, a non-empty enum list.
IsEnumNode(s) ==
    /\ ~s.nil
    /\ s.Ref = <<>>
    /\ Len(s.OneOf) = 0 /\ Len(s.AnyOf) = 0 /\ Len(s.AllOf) = 0
    /\ Len(s.Enum) > 0

EnumKeyOf(values) == canonicalKey(toStringSlice(values))

CollectedKeys == { registry.usages[i].ValuesKey : i \in 1..Len(registry.usages) }

tUserPrefs == <<"U", "s", "e", "r", "P", "r", "e", "f", "s">>
tModelCombined == <<"M", "o", "d", "e", "l", "C", "o", "m", "b", "i", "n", "e", "d">>
tStatus == <<"S", "t", "a", "t", "u", "s">>
tPriority == <<"P", "r", "i", "o", "r", "i", "t", "y">>
tPriorityHighLow == tPriority \o <<"H", "i", "g", "h", "L", "o", "w">>
keyHighLow == <<"h", "i", "g", "h", "|", "l", "o", "w">>
keyFastSlow == <<"f", "a", "s", "t", "|", "s", "l", "o", "w">>

\* Repeating a call directly: in every state, resolving the node of the
\* last call of the current session again, under any map iteration order,
\* gives the reference it gave and leaves nestedTypes as it is.
ImmediateRepeat ==
    (WasCall /\ last.sess = Len(sessions)) =>
        \A ord \in Orders :
            LET res == ResolveType(World(sessions[last.sess], registry, ord),
                                   last.call.s, last.call.parentName,
                                   last.call.fieldName)
            IN  /\ res.ret = last.ret
                /\ res.w.r.nestedTypes = sessions[last.sess].nestedTypes

\* C2: within one session no two entries of NestedTypes() have the same Name.
C2_UniqueNames ==
    \A i \in 1..Len(sessions) :
        \A a, b \in 1..Len(sessions[i].nestedTypes) :
            a # b => sessions[i].nestedTypes[a].Name # sessions[i].nestedTypes[b].Name

\* An anyOf node was resolved under the name UserPrefs that the session had
\* already given to an object declaration.
C2_Witness ==
    /\ WasCall
    /\ last.call.s = AnyOfInline
    /\ last.ret = tUserPrefs
    /\ \E k \in 1..Len(sessions[last.sess].nestedTypes) :
         /\ sessions[last.sess].nestedTypes[k].Name = tUserPrefs
         /\ ~sessions[last.sess].nestedTypes[k].IsUnion

\* The primitive and placeholder type references.
PlaceholderTypes ==
    { strAny, strString, <<"i", "n", "t">>, <<"i", "n", "t", "3", "2">>,
      <<"i", "n", "t", "6", "4">>, <<"f", "l", "o", "a", "t", "3", "2">>,
      <<"f", "l", "o", "a", "t", "6", "4">>, <<"b", "o", "o", "l">>,
      <<"t", "i", "m", "e", ".", "T", "i", "m", "e">>,
      <<"u", "u", "i", "d", ".", "U", "U", "I", "D">>,
      <<"[", "]", "b", "y", "t", "e">>, strMapString \o strAny }

HasPrefix(t, p) == Len(t) >= Len(p) /\ SubSeq(t, 1, Len(p)) = p

\* The type a slice or map reference is a slice or map of.
RECURSIVE ElementType(_)
ElementType(t) ==
    IF t \in PlaceholderTypes THEN t
    ELSE IF HasPrefix(t, strSlice) THEN ElementType(SubSeq(t, Len(strSlice) + 1, Len(t)))
    ELSE IF HasPrefix(t, strMapString)
    THEN ElementType(SubSeq(t, Len(strMapString) + 1, Len(t)))
    ELSE t

\* The names a $ref of a resolved node stands for: the bare name and the
\* package-qualified name of a mapped import.
RefTypeNames ==
    LET refs == { c.s.Ref : c \in { d \in Calls : ~d.s.nil /\ d.s.Ref # <<>> } }
    IN  { refToTypeName(ref) : ref \in refs }
        \cup { packageName(ExtMapping.m[ref]) \o <<".">> \o refToTypeName(ref) :
               ref \in refs \cap DOMAIN ExtMapping.m }

Backed(ret, names) ==
    LET t == ElementType(ret)
    IN  t \in PlaceholderTypes \/ t \in RefTypeNames \/ t \in names

\* The enum declarations of the registry sessions before session i.
EarlierEnumNames(i) ==
    UNION { EnumDeclNames(sessions[j]) : j \in { k \in 1..(i - 1) : sessions[k].registry } }

\* C3 (as stated): every type reference a session returns is a primitive or
\* placeholder, a slice or map of one, the name of a $ref, or the Name of a
\* declaration in that same session's list.
C3_Original ==
    WasCall => Backed(last.ret, DeclNames(sessions[last.sess]))

\* C3: every type reference a session returns is a primitive or placeholder,
\* a slice or map of one, the name of a $ref, the Name of a declaration in
\* that session's list, or, in a session with a registry, the Name of an
\* enum declaration in the list of an earlier session sharing the registry.
C3_Backed ==
    WasCall =>
        Backed(last.ret,
               DeclNames(sessions[last.sess])
               \cup (IF sessions[last.sess].registry
                     THEN EarlierEnumNames(last.sess) ELSE {}))

\* The second session of a registry got the name of an enum that only the
\* first session declares.
C3_Witness ==
    /\ WasCall
    /\ last.sess = 2
    /\ IsEnumNode(last.call.s)
    /\ last.ret \in EnumDeclNames(sessions[1])
    /\ last.ret \notin DeclNames(sessions[2])

\* C4 (as stated): in a session with a registry, an enum node whose value
\* set was collected resolves to the registry's name for the value set,
\* whatever parentName and fieldName.
C4_Original ==
    ( /\ WasCall
      /\ sessions[last.sess].registry
      /\ IsEnumNode(last.call.s)
      /\ EnumKeyOf(last.call.s.Enum) \in CollectedKeys )
    => last.ret = registry.valueToName[EnumKeyOf(last.call.s.Enum)]

\* C4: in a session with a registry, an enum node whose value set was
\* collected resolves, for every non-empty parentName and every fieldName,
\* to the registry's name for the value set.
C4_CanonicalName ==
    ( /\ WasCall
      /\ sessions[last.sess].registry
      /\ IsEnumNode(last.call.s)
      /\ last.call.parentName # <<>>
      /\ EnumKeyOf(last.call.s.Enum) \in CollectedKeys )
    => last.ret = registry.valueToName[EnumKeyOf(last.call.s.Enum)]

\* The second session resolved {active, pending} at Task.state and got the
\* name Status under which the first session declared the value set.
C4_Witness ==
    /\ WasCall
    /\ last.sess = 2
    /\ last.call = Call(EnumSchema(valsActivePending), nTask, nState)
    /\ last.ret = tStatus
    /\ tStatus \in EnumDeclNames(sessions[1])

BothPriorityUsagesNamed ==
    /\ pc = "frozen"
    /\ keyHighLow \in DOMAIN registry.valueToName
    /\ keyFastSlow \in DOMAIN registry.valueToName

\* C6 (as stated): with the usages (priority, {low, high}) and (priority,
\* {slow, fast}) collected, ResolveNames binds the two value sets to two
\* distinct names, and {slow, fast} is the one whose name carries a suffix.
C6_Original ==
    BothPriorityUsagesNamed =>
        /\ registry.valueToName[keyHighLow] # registry.valueToName[keyFastSlow]
        /\ HasPrefix(registry.valueToName[keyFastSlow], tPriority)
        /\ registry.valueToName[keyFastSlow] # tPriority
        /\ registry.valueToName[keyHighLow] = tPriority

\* C6: with the usages (priority, {low, high}) and (priority, {slow, fast})
\* collected, in either order, ResolveNames binds the two value sets to two
\* distinct names: {slow, fast}, whose key "fast|slow" sorts first, gets the
\* bare name Priority and {low, high} gets Priority with the suffix HighLow.
C6_DistinctNames ==
    BothPriorityUsagesNamed =>
        /\ registry.valueToName[keyHighLow] # registry.valueToName[keyFastSlow]
        /\ registry.valueToName[keyFastSlow] = tPriority
        /\ registry.valueToName[keyHighLow] = tPriorityHighLow

\* ResolveNames has run on a collection in which {low, high} came first.
C6_Witness ==
    /\ BothPriorityUsagesNamed
    /\ registry.usages[2].ValuesKey = keyHighLow
    /\ registry.usages[3].ValuesKey = keyFastSlow
    /\ registry.nameToValues[tPriority] = keyFastSlow

\* C7: once ResolveNames has returned, no step (a registry query, a new
\* session, a ResolveType call) changes usages, valueToName or nameToValues.
C7_NamingFrozen ==
    [][ pc = "frozen" =>
          /\ registry'.valueToName = registry.valueToName
          /\ registry'.nameToValues = registry.nameToValues
          /\ registry'.usages = registry.usages ]_vars

\* A session resolved an enum the registry has no name for and marked it
\* generated: the generated map grew beyond the named value sets.
C7_Witness ==
    /\ pc = "frozen"
    /\ WasCall
    /\ last.call = Call(EnumSchema(valsOnOff), nUser, nMode)
    /\ last.ret \in DOMAIN registry.generatedTypes
    /\ last.ret \notin DOMAIN registry.nameToValues

\* C9: ResolveType on a nil node returns "any" and changes nothing: in every
\* state, for every session, parentName, fieldName and iteration order the
\* call returns "any" and the world it was made in; and every step that made
\* such a call left the sessions and the registry as they were.
C9_NilIsAny ==
    /\ [] ( \A i \in 1..Len(sessions), ord \in Orders :
              \A parentName, fieldName \in { <<>>, nUser, nStatus } :
                 LET w == World(sessions[i], registry, ord)
                 IN  ResolveType(w, NilSchema, parentName, fieldName) = Ret(w, strAny) )
    /\ [][ (ncalls' = ncalls + 1 /\ last'.call.s.nil) =>
             /\ last'.ret = strAny
             /\ sessions' = sessions
             /\ registry' = registry ]_vars

\* A nil node was resolved in a session that already holds declarations.
C9_Witness ==
    /\ WasCall
    /\ last.call.s.nil
    /\ last.ret = strAny
    /\ sessions[last.sess].nestedTypes # <<>>
    /\ sessions[last.sess].seen # {}

IsAllOfABStep ==
    /\ ncalls' = ncalls + 1
    /\ last'.call = Call(AllOfAB, nModel, nCombined)
    /\ tModelCombined \notin sessions[Len(sessions)].seen

ShouldFlatten(r) == ~r.cfg.nil /\ r.cfg.AllOfStrategy = "flatten" /\ r.schemaLookup

EmbedStrategy(r) == r.cfg.nil \/ r.cfg.AllOfStrategy # "flatten"

\* C10: resolving allOf = [A, B], A declaring x and B declaring y, appends
\* exactly one declaration.  Under the embed strategy it is marked IsAllOf,
\* has no properties of its own and embeds [A, B]; under the flatten strategy
\* with a schema lookup it is not marked IsAllOf, embeds nothing and its
\* properties are exactly x and y.
C10_AllOf ==
    [][ IsAllOfABStep =>
          LET cur == Len(sessions)
              before == sessions[cur].nestedTypes
              after == sessions'[cur].nestedTypes
              d == after[Len(after)]
          IN  /\ last'.ret = tModelCombined
              /\ (EmbedStrategy(sessions[cur]) \/ ShouldFlatten(sessions[cur])) =>
                   /\ Len(after) = Len(before) + 1
                   /\ SubSeq(after, 1, Len(before)) = before
                   /\ d.Name = tModelCombined
              /\ EmbedStrategy(sessions[cur]) =>
                   /\ d.IsAllOf
                   /\ d.Schema.Properties = <<>>
                   /\ [ k \in 1..Len(d.Schema.AllOf) |-> refToTypeName(d.Schema.AllOf[k].Ref) ]
                        = << <<"A">>, <<"B">> >>
              /\ ShouldFlatten(sessions[cur]) =>
                   /\ ~d.IsAllOf
                   /\ d.Schema.AllOf = <<>>
                   /\ [ k \in 1..Len(d.Schema.Properties) |-> d.Schema.Properties[k].Name ]
                        = << <<"x">>, <<"y">> >> ]_vars

\* One session resolved the node under the embed strategy and the next one
\* under the flatten strategy with a lookup.
C10_Witness ==
    /\ Len(sessions) = 2
    /\ EmbedStrategy(sessions[1]) /\ ShouldFlatten(sessions[2])
    /\ Len(sessions[1].nestedTypes) = 1 /\ Len(sessions[2].nestedTypes) = 1
    /\ sessions[1].nestedTypes[1].Name = tModelCombined
    /\ sessions[1].nestedTypes[1].IsAllOf
    /\ sessions[2].nestedTypes[1].Name = tModelCombined
    /\ Len(sessions[2].nestedTypes[1].Schema.Properties) = 2

\* The names of the declarations of a session, in order.
NamesOf(r) == [ k \in 1..Len(r.nestedTypes) |-> r.nestedTypes[k].Name ]

\* The part of a session and of the registry that names are computed from
\* and recorded in: the declaration names in order, the seen names, the
\* memoized enum names, the imports, the enum name bindings and the names
\* marked generated.
NamingOf(r, reg) ==
    [ names |-> NamesOf(r), seen |-> r.seen, enumValues |-> r.enumValues,
      mappedImports |-> r.mappedImports, valueToName |-> reg.valueToName,
      nameToValues |-> reg.nameToValues, generated |-> DOMAIN reg.generatedTypes ]

\* C13: two runs on the same input produce, in every session, the same
\* declaration names in the same order and the same enum name bindings,
\* whatever order the range loops over maps take: from any state, the step
\* ResolveNames binds the same names under every iteration order, and a
\* ResolveType call returns the same reference and leaves the same names,
\* seen set, memo and bindings under every iteration order.
C13_Deterministic ==
    [][ /\ resolved' = resolved + 1 =>
             \A ord \in Orders :
                 LET reg == ResolveNames(registry, ord)
                 IN  /\ reg.valueToName = registry'.valueToName
                     /\ reg.nameToValues = registry'.nameToValues
        /\ ncalls' = ncalls + 1 =>
             \A ord \in Orders :
                 LET cur == Len(sessions)
                     res == ResolveType(World(sessions[cur], registry, ord),
                                        last'.call.s, last'.call.parentName,
                                        last'.call.fieldName)
                 IN  /\ res.ret = last'.ret
                     /\ NamingOf(res.w.r, res.w.reg)
                          = NamingOf(sessions'[cur], registry') ]_vars

\* ResolveNames has named a value set whose field names state and status
\* are used equally often, and a flattened allOf holds its required names
\* in descending order, as one iteration order of requiredMap yields them.
C13_Witness ==
    /\ WasCall
    /\ Len(registry.usages) = 4
    /\ registry.valueToName[EnumKeyOf(valsActivePending)] = <<"S", "t", "a", "t", "e">>
    /\ last.call.s = AllOfMixed
    /\ LET d == sessions[last.sess].nestedTypes[Len(sessions[last.sess].nestedTypes)]
       IN  /\ d.Name = last.ret
           /\ d.Schema.Required = << <<"z">>, <<"x">> >>

\* The declarations a ResolveType step appended to the current session.
AppendedBy(before, after) == SubSeq(after, Len(before) + 1, Len(after))

\* C14 (as stated): a single call of ResolveType appends at most one
\* declaration to the session's declaration list.
C14_Original ==
    [][ ncalls' = ncalls + 1 =>
          Len(sessions'[Len(sessions)].nestedTypes)
              <= Len(sessions[Len(sessions)].nestedTypes) + 1 ]_vars

\* C14: a single call of ResolveType leaves the earlier entries of the
\* declaration list as they are and appends zero or more declarations whose
\* names are pairwise distinct and new to the list; when it appends any, the
\* last one is the declaration of the node itself (of the element, for an
\* array or a map) and carries the name the returned reference names, so at
\* most one declaration is appended for the node and the others are those of
\* the nodes resolved inside it.
C14_OneForTheNode ==
    [][ ncalls' = ncalls + 1 =>
          LET before == sessions[Len(sessions)].nestedTypes
              after == sessions'[Len(sessions)].nestedTypes
              new == AppendedBy(before, after)
          IN  /\ Len(after) >= Len(before)
              /\ SubSeq(after, 1, Len(before)) = before
              /\ \A a, b \in 1..Len(new) : a # b => new[a].Name # new[b].Name
              /\ \A a \in 1..Len(new) : new[a].Name \notin DeclNames(sessions[Len(sessions)])
              /\ Len(new) > 0 => new[Len(new)].Name = ElementType(last'.ret)
              /\ \A a \in 1..(Len(new) - 1) : new[a].Name # ElementType(last'.ret) ]_vars

\* One call on an object with an inline enum property appended two
\* declarations: the enum's and then the object's.
C14_Witness ==
    /\ WasCall
    /\ ncalls = 1
    /\ last.call = Call(NestedObject, nUser, <<"p", "r", "e", "f", "s">>)
    /\ Len(sessions[last.sess].nestedTypes) = 2
    /\ sessions[last.sess].nestedTypes[1].IsEnum
    /\ sessions[last.sess].nestedTypes[2].Name = last.ret

(***************************************************************************)
(* Properties of the generation driver, checked under SpecGen              *)
(***************************************************************************)

C1_SameOnRepeat ==
    (WasCall /\ last.repeat) =>
        /\ last.ret = first[last.call]
        /\ last.appended = 0

\* Without a registry: the enum of User.prefs, first resolved to the name
\* UserPrefs that the union already holds, resolves to OrderStatus once the
\* same values have been declared for Order.status.
C1_Diverged ==
    /\ WasCall
    /\ ~sessions[1].registry
    /\ last.repeat
    /\ last.call = Call(EnumSchema(valsPendingActive), nUser, <<"p", "r", "e", "f", "s">>)
    /\ first[last.call] = nUserPrefs
    /\ last.ret = nOrder \o tStatus

\* The string values of an enum, as a set.
StringSet(values) ==
    { values[i].s : i \in { k \in 1..Len(values) : values[k].isString } }

\* The call resolves an enum node under a non-empty parent name.
IsEnumCall(c) ==
    /\ ~c.s.nil /\ c.s.Ref = <<>>
    /\ Len(c.s.Enum) > 0
    /\ c.parentName # <<>>

\* The calls made before that resolved an enum with the values of the last
\* call under another field name.
SameValuesBefore ==
    { c \in DOMAIN first :
        /\ IsEnumCall(c)
        /\ c.fieldName # last.call.fieldName
        /\ StringSet(c.s.Enum) = StringSet(last.call.s.Enum) }

\* The enum declarations of the session with the values of the last call.
EnumDeclarations ==
    { i \in 1..Len(sessions[1].nestedTypes) :
        /\ sessions[1].nestedTypes[i].IsEnum
        /\ StringSet(sessions[1].nestedTypes[i].Schema.Enum) = StringSet(last.call.s.Enum) }

\* C24: in a session with no registry, two enum nodes with the same set of
\* string values, resolved under non-empty parent names with different field
\* names, return the same type name, and exactly one enum declaration is
\* appended for them.
C24_OneDeclaration ==
    (WasCall /\ ~sessions[1].registry /\ IsEnumCall(last.call)) =>
        \A c \in SameValuesBefore :
            /\ last.ret = first[c]
            /\ Cardinality(EnumDeclarations) = 1

\* C24: after the union UserPrefs, the enum of User.prefs returned UserPrefs
\* and was neither memoized nor declared; the enum of Order.status, with the
\* same values, returns OrderStatus.
C24_TwoNames ==
    /\ WasCall
    /\ ~sessions[1].registry
    /\ last.call = Call(EnumSchema(valsActivePending), nOrder, nStatus)
    /\ Call(EnumSchema(valsPendingActive), nUser, <<"p", "r", "e", "f", "s">>) \in DOMAIN first
    /\ first[Call(EnumSchema(valsPendingActive), nUser, <<"p", "r", "e", "f", "s">>)] = nUserPrefs
    /\ last.ret = nOrder \o tStatus
    /\ Cardinality(EnumDeclarations) = 1

\* Auxiliary: the statement of C24 holds as long as the session has not
\* resolved the union whose name the enum of User.prefs synthesizes.
OneDeclarationWithoutClash ==
    (/\ WasCall /\ ~sessions[1].registry /\ IsEnumCall(last.call)
     /\ Call(AnyOfInline, <<>>, nUserPrefs) \notin DOMAIN first) =>
        \A c \in SameValuesBefore :
            /\ last.ret = first[c]
            /\ Cardinality(EnumDeclarations) = 1

(***************************************************************************)
(* Properties of composition nodes, checked under SpecCompose              *)
(***************************************************************************)

\* The step is the return of the call on the stack.
IsReturn == pc = "resolving" /\ pc' = "idle"

\* The name resolveUnion and resolveAllOf synthesize for the call.
NestedNameOf(c) == c.parentName \o PascalCase(c.fieldName)

IsAllOfNode(s) ==
    /\ ~s.nil
    /\ s.Ref = <<>>
    /\ Len(s.OneOf) = 0 /\ Len(s.AnyOf) = 0
    /\ Len(s.AllOf) > 0

IsUnionNode(s) ==
    /\ ~s.nil
    /\ s.Ref = <<>>
    /\ Len(s.OneOf) > 0 \/ Len(s.AnyOf) > 0

\* The properties that the members declare, in expansion order: a referenced
\* member contributes the expansion of its own allOf members and then its
\* own properties, an inline member its properties.
RECURSIVE Expansion(_, _)
Expansion(schemas, members) ==
    IF members = <<>> THEN <<>>
    ELSE LET s == members[1]
             t == SchemaByRef(schemas, s.Ref)
             own == IF s.Ref = <<>> THEN s.Properties
                    ELSE IF t.nil THEN <<>>
                    ELSE Expansion(schemas, t.AllOf) \o t.Properties
         IN  own \o Expansion(schemas, Tail(members))

\* The properties of props whose name no earlier property has.
RECURSIVE FirstByName(_, _)
FirstByName(props, names) ==
    IF props = <<>> THEN <<>>
    ELSE IF props[1].Name \in names THEN FirstByName(Tail(props), names)
    ELSE << props[1] >> \o FirstByName(Tail(props), names \cup { props[1].Name })

\* C11: under the flatten strategy (with a schema lookup) the declaration
\* appended for an allOf node has no two properties with the same name, and
\* its properties are, in expansion order, the first declaration of each
\* property name among the members, inline or referenced, at any depth.
C11_FirstWins ==
    [][ ( /\ IsReturn
          /\ IsAllOfNode(pending[1].call.s)
          /\ ShouldFlatten(sessions[1])
          /\ NestedNameOf(pending[1].call) \notin sessions[1].seen )
        => LET after == sessions'[1].nestedTypes
               d == after[Len(after)]
               props == d.Schema.Properties
           IN  /\ Len(after) > Len(sessions[1].nestedTypes)
               /\ d.Name = NestedNameOf(pending[1].call)
               /\ \A a, b \in 1..Len(props) : a # b => props[a].Name # props[b].Name
               /\ props = FirstByName(Expansion(doc.Schemas, pending[1].call.s.AllOf), {})
      ]_vars

\* allOf = [{x: string}, {x: integer}] was flattened to the one property x,
\* a string; and allOf = [C, B, {y, x}] to x of A, w of C and y of B.
C11_Witness ==
    /\ WasCall
    /\ ShouldFlatten(sessions[1])
    /\ last.call.s = AllOfChain
    /\ \E j, k \in 1..Len(sessions[1].nestedTypes) :
         /\ sessions[1].nestedTypes[j].Schema.Properties
              = << Prop(<<"x">>, StringSchema("")) >>
         /\ sessions[1].nestedTypes[k].Name = last.ret
         /\ sessions[1].nestedTypes[k].Schema.Properties
              = << Prop(<<"x">>, StringSchema("")),
                   Prop(<<"w">>, EnumSchema(valsOnOff)),
                   Prop(<<"y">>, IntegerSchema) >>

\* The document has a cycle that runs through allOf members.
HasAllOfCycle(spec) ==
    \E i \in 1..Len(spec.Schemas) : spec.Schemas[i].Name \in { nSelf, <<"P">>, <<"Q">> }

\* Where the recursion does not end: only under the flatten strategy with a
\* schema lookup, and only in a document with a cycle through allOf members.
\* Under the embed strategy, and in documents whose cycles run through
\* properties or array items only, every call returns.
OverflowOnlyOnAllOfCycle ==
    pc = "overflow" => (ShouldFlatten(sessions[1]) /\ HasAllOfCycle(doc))

\* C15: every call of ResolveType returns, whatever the named schemas of the
\* document, cyclic ones included, under the embed and the flatten strategy.
C15_Terminates == (pc = "resolving") ~> (pc = "idle")

\* Under the flatten strategy the types target's call on the named schema
\* Self, whose allOf lists Self, has used up the stack.
C15_Overflow ==
    /\ pc = "overflow"
    /\ ShouldFlatten(sessions[1])
    /\ pending[1].call = Call(SchemaSelf, <<>>, nSelf)

\* The members of a union node: oneOf, or anyOf when oneOf is empty.
MembersOf(s) == IF Len(s.OneOf) = 0 THEN s.AnyOf ELSE s.OneOf

\* The discriminator mapping of a node; empty when it has none.
MappingOf(s) ==
    IF ~s.Discriminator.nil /\ ~s.Discriminator.Mapping.nil
    THEN s.Discriminator.Mapping.m ELSE EmptyMap

\* The mapping entry L names the variant: its target is the variant's $ref,
\* or the type name its target resolves to is the variant's type name.
NamesVariant(mapping, L, v) ==
    \/ mapping[L] = v.Schema.Ref
    \/ refToTypeName(mapping[L]) = v.TypeName

\* The step is the return of a call on a union node whose name is new.
IsUnionStep ==
    /\ IsReturn
    /\ IsUnionNode(pending[1].call.s)
    /\ NestedNameOf(pending[1].call) \notin sessions[1].seen

\* The union declarations the step appended.
AppendedUnions ==
    { k \in (Len(sessions[1].nestedTypes) + 1)..Len(sessions'[1].nestedTypes) :
        sessions'[1].nestedTypes[k].IsUnion }

\* What holds of every union step: one union declaration, one variant per
\* member in member order, and a variant carries a literal exactly when some
\* mapping entry names it, the literal then being one of those entries.
UnionLiteralAmongMatches ==
    [][ IsUnionStep =>
          LET s == pending[1].call.s
              after == sessions'[1].nestedTypes
              d == after[Len(after)]
              mapping == MappingOf(s)
          IN  /\ Cardinality(AppendedUnions) = 1
              /\ d.Name = NestedNameOf(pending[1].call) /\ d.IsUnion
              /\ [ k \in 1..Len(d.Variants) |-> d.Variants[k].Schema ] = MembersOf(s)
              /\ \A k \in 1..Len(d.Variants) :
                   LET matches == { L \in DOMAIN mapping :
                                      NamesVariant(mapping, L, d.Variants[k]) }
                   IN  IF matches = {} THEN d.Variants[k].DiscValue = <<>>
                       ELSE d.Variants[k].DiscValue \in matches ]_vars

\* C12: resolving a oneOf/anyOf node appends exactly one union declaration
\* whose variant list has one entry per member in member order; with a
\* discriminator mapping a variant carries the literal L exactly when the
\* mapping has an entry L that names it, and a variant that no entry names
\* carries no literal.
C12_Union ==
    [][ IsUnionStep =>
          LET s == pending[1].call.s
              after == sessions'[1].nestedTypes
              d == after[Len(after)]
              mapping == MappingOf(s)
          IN  /\ Cardinality(AppendedUnions) = 1
              /\ d.Name = NestedNameOf(pending[1].call) /\ d.IsUnion
              /\ [ k \in 1..Len(d.Variants) |-> d.Variants[k].Schema ] = MembersOf(s)
              /\ \A k \in 1..Len(d.Variants) :
                   /\ \A L \in DOMAIN mapping :
                        (d.Variants[k].DiscValue = L)
                            <=> NamesVariant(mapping, L, d.Variants[k])
                   /\ (\A L \in DOMAIN mapping : ~NamesVariant(mapping, L, d.Variants[k]))
                        => d.Variants[k].DiscValue = <<>> ]_vars

\* oneOf = [Cat, Dog] with the mapping {cat: Cat, kitty: Cat, dog: dog} was
\* resolved: the variant Cat carries the literal kitty and not the literal
\* cat, whose entry names it too.
C12_Alias ==
    /\ WasCall
    /\ last.call.s = OneOfAlias
    /\ LET d == sessions[1].nestedTypes[Len(sessions[1].nestedTypes)]
       IN  /\ d.Name = last.ret
           /\ d.Variants[1].TypeName = <<"C", "a", "t">>
           /\ d.Variants[1].DiscValue = <<"k", "i", "t", "t", "y">>
           /\ d.Variants[2].DiscValue = <<"d", "o", "g">>

\* The inline members of an allOf, and its reference members, in order.
RECURSIVE InlineMembers(_)
InlineMembers(members) ==
    IF members = <<>> THEN <<>>
    ELSE (IF members[1].Ref = <<>> THEN << members[1] >> ELSE <<>>)
         \o InlineMembers(Tail(members))

RECURSIVE ReferenceMembers(_)
ReferenceMembers(members) ==
    IF members = <<>> THEN <<>>
    ELSE (IF members[1].Ref # <<>> THEN << members[1] >> ELSE <<>>)
         \o ReferenceMembers(Tail(members))

\* The properties of the schemas of a list, one schema after the other.
RECURSIVE PropertiesOfAll(_)
PropertiesOfAll(schemas) ==
    IF schemas = <<>> THEN <<>>
    ELSE schemas[1].Properties \o PropertiesOfAll(Tail(schemas))

RequiredOfAll(schemas) ==
    UNION { { schemas[i].Required[k] : k \in 1..Len(schemas[i].Required) } :
            i \in 1..Len(schemas) }

SetOf(q) == { q[i] : i \in 1..Len(q) }

\* The call on the stack is the first resolution of an allOf node with an
\* inline member by a session that embeds.
IsEmbedMergeStep ==
    /\ IsReturn
    /\ IsAllOfNode(pending[1].call.s)
    /\ EmbedStrategy(sessions[1])
    /\ InlineMembers(pending[1].call.s.AllOf) # <<>>
    /\ NestedNameOf(pending[1].call) \notin sessions[1].seen

\* C22: under the embed strategy, the declaration of an allOf with an inline
\* member has the inline members' properties, every property name once (the
\* first one declared), the union of the inline members' required sets, and
\* embeds exactly the reference members, in member order.
C22_EmbedMerge ==
    [][ IsEmbedMergeStep
        => LET after == sessions'[1].nestedTypes
               d == after[Len(after)]
               members == pending[1].call.s.AllOf
           IN  /\ Len(after) > Len(sessions[1].nestedTypes)
               /\ d.Name = NestedNameOf(pending[1].call)
               /\ \A a, b \in 1..Len(d.Schema.Properties) :
                    a # b => d.Schema.Properties[a].Name # d.Schema.Properties[b].Name
               /\ d.Schema.Properties
                    = FirstByName(PropertiesOfAll(InlineMembers(members)), {})
               /\ SetOf(d.Schema.Required) = RequiredOfAll(InlineMembers(members))
               /\ d.Schema.AllOf = ReferenceMembers(members)
      ]_vars

\* C22: an embedding session resolved allOf = [{x: string}, {x: integer}];
\* the declaration has the property x twice.
C22_Duplicate ==
    /\ WasCall
    /\ EmbedStrategy(sessions[1])
    /\ last.call.s = AllOfDup
    /\ \E k \in 1..Len(sessions[1].nestedTypes) :
         /\ sessions[1].nestedTypes[k].Name = last.ret
         /\ sessions[1].nestedTypes[k].Schema.Properties
              = << Prop(<<"x">>, StringSchema("")), Prop(<<"x">>, IntegerSchema) >>

\* Auxiliary: the declaration of the embed merge holds every property of
\* the inline members, in order, repeated names included; the required set
\* and the embed list are as C22 says.
EmbedMergeKeepsAll ==
    [][ IsEmbedMergeStep
        => LET after == sessions'[1].nestedTypes
               d == after[Len(after)]
               members == pending[1].call.s.AllOf
           IN  /\ d.Name = NestedNameOf(pending[1].call)
               /\ d.Schema.Properties = PropertiesOfAll(InlineMembers(members))
               /\ SetOf(d.Schema.Required) = RequiredOfAll(InlineMembers(members))
               /\ d.Schema.AllOf = ReferenceMembers(members)
      ]_vars

\* The schema a member stands for: the member itself when inline, the
\* schema the lookup finds when it is a reference (nil when it finds none).
Denoted(schemas, member) ==
    IF member.Ref = <<>> THEN member ELSE SchemaByRef(schemas, member.Ref)

\* The property names met by expanding the members recursively, every
\* member together with its own allOf chain, at most depth levels deep; and
\* the required names met in the same expansion.
RECURSIVE ReachableNames(_, _, _)
ReachableNames(schemas, members, depth) ==
    IF depth = 0 THEN {}
    ELSE UNION { LET t == Denoted(schemas, members[i])
                 IN  IF t.nil THEN {}
                     ELSE { t.Properties[k].Name : k \in 1..Len(t.Properties) }
                          \cup ReachableNames(schemas, t.AllOf, depth - 1) :
                 i \in 1..Len(members) }

RECURSIVE ReachableRequired(_, _, _)
ReachableRequired(schemas, members, depth) ==
    IF depth = 0 THEN {}
    ELSE UNION { LET t == Denoted(schemas, members[i])
                 IN  IF t.nil THEN {}
                     ELSE SetOf(t.Required)
                          \cup ReachableRequired(schemas, t.AllOf, depth - 1) :
                 i \in 1..Len(members) }

\* The call on the stack is the first resolution of an allOf node by a
\* session that flattens.
IsFlattenStep ==
    /\ IsReturn
    /\ IsAllOfNode(pending[1].call.s)
    /\ ShouldFlatten(sessions[1])
    /\ NestedNameOf(pending[1].call) \notin sessions[1].seen

\* C23: under the flatten strategy the property names of the declaration
\* are all the property names reachable by expanding every member
\* recursively, inline and referenced alike, each with its own allOf chain;
\* its required set is the union of the required sets met; a reference the
\* lookup cannot resolve is skipped.
C23_FlattenAll ==
    [][ IsFlattenStep
        => LET after == sessions'[1].nestedTypes
               d == after[Len(after)]
               members == pending[1].call.s.AllOf
           IN  /\ Len(after) > Len(sessions[1].nestedTypes)
               /\ d.Name = NestedNameOf(pending[1].call)
               /\ { d.Schema.Properties[k].Name : k \in 1..Len(d.Schema.Properties) }
                    = ReachableNames(doc.Schemas, members, MaxDepth)
               /\ SetOf(d.Schema.Required)
                    = ReachableRequired(doc.Schemas, members, MaxDepth)
      ]_vars

\* C23: a flattening session resolved allOf = [{z; allOf: [B]}] over a
\* document that declares B with the property y; the declaration has z and
\* lacks y.
C23_ChainDropped ==
    /\ WasCall
    /\ ShouldFlatten(sessions[1])
    /\ last.call.s = AllOfNested
    /\ ~SchemaByRef(doc.Schemas, RefTo(<<"B">>)).nil
    /\ \E k \in 1..Len(sessions[1].nestedTypes) :
         /\ sessions[1].nestedTypes[k].Name = last.ret
         /\ sessions[1].nestedTypes[k].Schema.Properties
              = << Prop(<<"z">>, StringSchema("")) >>

\* The allOf chains of inline members are left out of the expansion: the
\* members an inline member stands for are only itself.
RECURSIVE ReadNames(_, _, _)
ReadNames(schemas, members, depth) ==
    IF depth = 0 THEN {}
    ELSE UNION { LET t == Denoted(schemas, members[i])
                 IN  IF t.nil THEN {}
                     ELSE { t.Properties[k].Name : k \in 1..Len(t.Properties) }
                          \cup (IF members[i].Ref = <<>> THEN {}
                                ELSE ReadNames(schemas, t.AllOf, depth - 1)) :
                 i \in 1..Len(members) }

RECURSIVE ReadRequired(_, _, _)
ReadRequired(schemas, members, depth) ==
    IF depth = 0 THEN {}
    ELSE UNION { LET t == Denoted(schemas, members[i])
                 IN  IF t.nil THEN {}
                     ELSE SetOf(t.Required)
                          \cup (IF members[i].Ref = <<>> THEN {}
                                ELSE ReadRequired(schemas, t.AllOf, depth - 1)) :
                 i \in 1..Len(members) }

\* Auxiliary: what C23 says holds when the allOf chains of inline members
\* are left out of the expansion.
FlattenAllButInlineChains ==
    [][ IsFlattenStep
        => LET after == sessions'[1].nestedTypes
               d == after[Len(after)]
               members == pending[1].call.s.AllOf
           IN  /\ Len(after) > Len(sessions[1].nestedTypes)
               /\ d.Name = NestedNameOf(pending[1].call)
               /\ { d.Schema.Properties[k].Name : k \in 1..Len(d.Schema.Properties) }
                    = ReadNames(doc.Schemas, members, MaxDepth)
               /\ SetOf(d.Schema.Required) = ReadRequired(doc.Schemas, members, MaxDepth)
      ]_vars

\* The member is an inline object that gets a declaration: no reference, no
\* composition, no enum, type object with properties and no map values.
IsInlineObject(s) ==
    /\ ~s.nil /\ s.Ref = <<>>
    /\ Len(s.OneOf) = 0 /\ Len(s.AnyOf) = 0 /\ Len(s.AllOf) = 0
    /\ Len(s.Enum) = 0
    /\ s.Type = "object"
    /\ s.AdditionalProperties.nil
    /\ Len(s.Properties) > 0

\* C28: in a oneOf/anyOf with several inline object members every inline
\* member resolves to a type name of its own and gets a declaration of its
\* own: no two inline members share a variant type name, and each such name
\* names a declaration built from that member.
C28_OwnVariants ==
    [][ IsUnionStep =>
          LET s == pending[1].call.s
              after == sessions'[1].nestedTypes
              d == after[Len(after)]
              inline == { k \in 1..Len(MembersOf(s)) : IsInlineObject(MembersOf(s)[k]) }
          IN  /\ Len(d.Variants) = Len(MembersOf(s))
              /\ \A j, k \in inline : j # k => d.Variants[j].TypeName # d.Variants[k].TypeName
              /\ \A k \in inline :
                   \E i \in 1..Len(after) :
                       /\ after[i].Name = d.Variants[k].TypeName
                       /\ after[i].Schema.Properties = MembersOf(s)[k].Properties
      ]_vars

\* C28: anyOf = [{id}, {name}] was resolved; both variants are named
\* UserContactVariant and the one declaration of that name has the
\* property id.
C28_SharedVariant ==
    /\ WasCall
    /\ last.call.s = AnyOfTwoInline
    /\ LET nt == sessions[1].nestedTypes
           d == nt[Len(nt)]
       IN  /\ d.Name = last.ret
           /\ Len(d.Variants) = 2
           /\ d.Variants[1].TypeName = d.Variants[2].TypeName
           /\ Cardinality({ i \in 1..Len(nt) : nt[i].Name = d.Variants[1].TypeName }) = 1
           /\ \A i \in 1..Len(nt) :
                nt[i].Name = d.Variants[1].TypeName
                  => nt[i].Schema.Properties = AnyOfTwoInline.AnyOf[1].Properties

\* The outcomes of the call on the stack under the two iteration orders.
OutcomeUnder(ord) == ComposeOutcome(pending[1].call, ord)

\* C29: the content of every declaration is the same whatever order the
\* range loops over maps take: the discriminator literal of each union
\* variant and the order of the required list of a merged or flattened
\* allOf declaration.
C29_SameContent ==
    (pc = "resolving") =>
        \A ord \in Orders :
            OutcomeUnder(ord).w.r.nestedTypes = pending[1].outcome.w.r.nestedTypes

\* C29: the call resolves allOf = [C, B, {y, x}] by flattening; the required
\* list of the declaration is [w, x, y] under one iteration order and
\* [y, x, w] under the other.
C29_RequiredOrder ==
    /\ pc = "resolving"
    /\ pending[1].call.s = AllOfChain
    /\ ShouldFlatten(sessions[1])
    /\ LET a == OutcomeUnder("asc").w.r.nestedTypes
           b == OutcomeUnder("desc").w.r.nestedTypes
       IN  /\ Len(a) = Len(b)
           /\ a[Len(a)].Schema.Required = << <<"w">>, <<"x">>, <<"y">> >>
           /\ b[Len(b)].Schema.Required = << <<"y">>, <<"x">>, <<"w">> >>
           /\ a[Len(a)].Schema.Properties = b[Len(b)].Schema.Properties

\* The declaration with its required list as a set and without the
\* discriminator literals of its variants.
ContentUpToOrder(d) ==
    [ d EXCEPT !.Schema = IF d.Schema.nil THEN d.Schema
                          ELSE [ d.Schema EXCEPT !.Required = SetOf(@) ],
               !.Variants = [ k \in 1..Len(@) |-> [ @[k] EXCEPT !.DiscValue = <<>> ] ] ]

\* Auxiliary: apart from the order of the required lists and the literals of
\* variants, the declarations are the same under both iteration orders.
SameContentUpToOrder ==
    (pc = "resolving") =>
        \A ord \in Orders :
            LET a == OutcomeUnder(ord).w.r.nestedTypes
                b == pending[1].outcome.w.r.nestedTypes
            IN  /\ Len(a) = Len(b)
                /\ \A k \in 1..Len(a) : ContentUpToOrder(a[k]) = ContentUpToOrder(b[k])

(***************************************************************************)
(* Properties of PascalCase, checked under SpecPascal                      *)
(***************************************************************************)

\* A word may begin at an upper-case letter that follows the character c:
\* a lower-case letter, or, when digits is set, a digit too.
SplitsAfter(c, digits) == IsLower(c) \/ (digits /\ IsDigit(c))

\* Position i of s begins a word.
IsWordStart(s, i, digits) ==
    /\ ~IsSeparator(s[i])
    /\ \/ i = 1
       \/ IsSeparator(s[i - 1])
       \/ IsUpper(s[i]) /\ SplitsAfter(s[i - 1], digits)

\* The word of s that begins at position i.
WordAt(s, i, digits) ==
    LET stops == { j \in (i + 1)..Len(s) : IsSeparator(s[j]) \/ IsWordStart(s, j, digits) }
        end == IF stops = {} THEN Len(s)
               ELSE (CHOOSE j \in stops : \A k \in stops : j <= k) - 1
    IN  SubSeq(s, i, end)

\* A word as it appears in the result: upper-cased when its upper-cased form
\* is an initialism, else first letter upper-cased and the rest lower-cased.
WordName(wd) ==
    IF ToUpper(wd) \in commonInitialisms THEN ToUpper(wd)
    ELSE << ToUpperChar(wd[1]) >> \o [ k \in 1..(Len(wd) - 1) |-> ToLowerChar(wd[k + 1]) ]

\* The concatenation of the word names of s from position i on.
RECURSIVE WordNamesFrom(_, _, _)
WordNamesFrom(s, i, digits) ==
    IF i > Len(s) THEN <<>>
    ELSE IF IsWordStart(s, i, digits)
    THEN WordName(WordAt(s, i, digits)) \o WordNamesFrom(s, i + 1, digits)
    ELSE WordNamesFrom(s, i + 1, digits)

FieldsOf(k) ==
    { registry.usages[i].FieldName :
        i \in { j \in 1..Len(registry.usages) : registry.usages[j].ValuesKey = k } }

UsageCount(k, f) ==
    Cardinality({ i \in 1..Len(registry.usages) :
                    /\ registry.usages[i].ValuesKey = k
                    /\ registry.usages[i].FieldName = f })

\* The field name with the highest usage count among the usages with key k,
\* the smallest one in byte order among those with that count.
MostUsedField(k) ==
    CHOOSE f \in FieldsOf(k) :
        \A g \in FieldsOf(k) \ {f} :
            \/ UsageCount(k, f) > UsageCount(k, g)
            \/ UsageCount(k, f) = UsageCount(k, g) /\ StrLess(f, g)

\* C20: for each group of usages that share a canonical key the base name
\* ResolveNames chooses is PascalCase of the most used field name of the
\* group, the smallest field name winning a tie, whatever the iteration
\* order of the field-count map: the group's name is that base name, bare or
\* followed by the value suffix.
C20_BaseName ==
    pc = "frozen" =>
        \A k \in CollectedKeys :
            LET base == PascalCase(MostUsedField(k))
            IN  /\ k \in DOMAIN registry.valueToName
                /\ \/ registry.valueToName[k] = base
                   \/ registry.valueToName[k]
                        = base \o valueSuffix(groupOf(registry.usages, k)[1].Values)

\* ResolveNames, ranging over the field counts in descending order, named a
\* group in which status and state are each used once and kind not at all:
\* the name is State.
C20_Witness ==
    /\ pc = "frozen"
    /\ last.op = "ResolveNames" /\ last.ord = "desc"
    /\ Len(registry.usages) = 3
    /\ FieldsOf(EnumKeyOf(valsPendingActive)) = { nState, nStatus }
    /\ registry.usages[1].FieldName = nStatus
    /\ registry.valueToName[EnumKeyOf(valsPendingActive)] = <<"S", "t", "a", "t", "e">>


(***************************************************************************)
(* Properties of the request middleware, checked under SpecMw              *)
(***************************************************************************)

\* A request has been served and the request validator did not reject it.
Served == pc = "served" /\ last.op = "ServeHTTP"
PastValidation == Served /\ (~config.ValidateRequest \/ last.valid)

\* The operation the middleware goes by for the served request, and its
\* security requirements.
FoundOperation == findOperation(doc, last.r.path, last.r.method)
FoundReqs == IF FoundOperation.nil THEN <<>> ELSE secReqsOf(doc, FoundOperation)

SchemesOf(req) == { req[k].Key : k \in 1..Len(req) }

\* The handler of scheme s is registered and succeeds on the served request.
SchemePasses(s) == s \in DOMAIN config.Security /\ last.r.creds[s] = "ok"
Passes(req) == \A s \in SchemesOf(req) : SchemePasses(s)

\* The context carries the result of the handler of scheme s.
Carries(ctx, s) ==
    /\ ~ctx.nil
    /\ ctx.sec[SchemeKinds[s]] = [ nil |-> FALSE, by |-> s ]

\* The status of the error of the first scheme of req that does not pass.
FirstFailing(req) ==
    LET k == CHOOSE k \in 1..Len(req) :
                 /\ ~SchemePasses(req[k].Key)
                 /\ \A j \in 1..(k - 1) : SchemePasses(req[j].Key)
    IN  req[k].Key

StatusOfFailure(s) ==
    IF s \in DOMAIN config.Security /\ last.r.creds[s] = "forbidden"
    THEN StatusForbidden
    ELSE StatusUnauthorized

\* The served request was answered with one authentication error.
OneAuthError(req) ==
    /\ last.next = <<>>
    /\ Len(last.written) = 1
    /\ last.written[1].by \in { "authentication_error", "ErrorHandler" }
    /\ last.written[1].status = StatusOfFailure(FirstFailing(req))

\* The found operation has one requirement naming several schemes.
IsAndOperation == PastValidation /\ Len(FoundReqs) = 1 /\ Len(FoundReqs[1]) >= 2

\* C16: for an operation whose one requirement names several schemes, the
\* next handler is invoked only if the handler of every named scheme
\* succeeds, and the SecurityContext it sees carries the result of every one
\* of them; if a named scheme is unregistered or fails, the response is an
\* authentication error and the next handler is not invoked.
C16_And ==
    IsAndOperation =>
        /\ last.next # <<>> =>
             /\ Passes(FoundReqs[1])
             /\ \A s \in SchemesOf(FoundReqs[1]) : Carries(last.next[1], s)
        /\ ~Passes(FoundReqs[1]) => OneAuthError(FoundReqs[1])

\* C16: both schemes of the requirement are API keys and both handlers
\* succeed; the next handler is invoked and the context it sees lacks the
\* result of the first.
C16_Overwritten ==
    /\ IsAndOperation
    /\ FoundOperation.OperationId = "rotateKeys"
    /\ last.next # <<>>
    /\ Passes(FoundReqs[1])
    /\ ~Carries(last.next[1], "apiKey")
    /\ Carries(last.next[1], "appId")

\* The schemes of req are registered with handlers of distinct kinds.
DistinctKinds(req) ==
    \A j, k \in 1..Len(req) :
        j # k => SchemeKinds[req[j].Key] # SchemeKinds[req[k].Key]

\* Auxiliary: the AND semantics hold for every requirement whose schemes are
\* of distinct kinds.
AndOfDistinctKinds ==
    (IsAndOperation /\ DistinctKinds(FoundReqs[1])) =>
        /\ last.next # <<>> =>
             /\ Passes(FoundReqs[1])
             /\ \A s \in SchemesOf(FoundReqs[1]) : Carries(last.next[1], s)
        /\ ~Passes(FoundReqs[1]) => OneAuthError(FoundReqs[1])

\* The first alternative of the found operation that is empty or whose
\* schemes all pass; 0 when there is none.
Accepted ==
    LET ok == { k \in 1..Len(FoundReqs) : Len(FoundReqs[k]) = 0 \/ Passes(FoundReqs[k]) }
    IN  IF ok = {} THEN 0 ELSE CHOOSE k \in ok : \A j \in ok : k <= j

\* The position of scheme s in requirement req.
PositionIn(req, s) == CHOOSE k \in 1..Len(req) : req[k].Key = s

\* The handler calls were made in declaration order: alternative by
\* alternative, and scheme by scheme within one.
HandledInOrder ==
    \A i, j \in 1..Len(last.handled) :
        i < j =>
            \/ last.handled[i].alt < last.handled[j].alt
            \/ /\ last.handled[i].alt = last.handled[j].alt
               /\ PositionIn(FoundReqs[last.handled[i].alt], last.handled[i].scheme)
                    < PositionIn(FoundReqs[last.handled[j].alt], last.handled[j].scheme)

\* C17: the alternative requirements of an operation are tried in
\* declaration order and the first whose schemes all succeed is accepted;
\* the SecurityContext attached to the request holds only results of the
\* accepted alternative.
C17_Or ==
    (PastValidation /\ Len(FoundReqs) >= 1) =>
        /\ (last.next # <<>>) <=> (Accepted # 0)
        /\ HandledInOrder
        /\ \A i \in 1..Len(last.handled) :
             /\ Accepted # 0 => last.handled[i].alt <= Accepted
             /\ last.handled[i].scheme \in SchemesOf(FoundReqs[last.handled[i].alt])
        /\ \A k \in 1..Len(FoundReqs) :
             (k <= Accepted \/ Accepted = 0) /\ Len(FoundReqs[k]) > 0
               /\ FoundReqs[k][1].Key \in DOMAIN config.Security
               => \E i \in 1..Len(last.handled) : last.handled[i].alt = k
        /\ (last.next # <<>> /\ ~last.next[1].nil) =>
             \A f \in AuthFields :
                 ~last.next[1].sec[f].nil =>
                     /\ last.next[1].sec[f].by \in SchemesOf(FoundReqs[Accepted])
                     /\ Carries(last.next[1], last.next[1].sec[f].by)

\* C17: the first alternative failed after one of its handlers had
\* succeeded, the second alternative is accepted, and the context holds
\* nothing of the first.
C17_Witness ==
    /\ PastValidation
    /\ Len(FoundReqs) = 2
    /\ FoundOperation.OperationId = "flexibleEndpoint"
    /\ Accepted = 2
    /\ last.handled = << [ alt |-> 1, scheme |-> "bearerAuth" ],
                         [ alt |-> 1, scheme |-> "appId" ],
                         [ alt |-> 2, scheme |-> "apiKey" ] >>
    /\ last.r.creds["bearerAuth"] = "ok"
    /\ last.next # <<>>
    /\ last.next[1].sec.Bearer.nil
    /\ Carries(last.next[1], "apiKey")

\* The path item the document declares for a path: the one whose pattern is
\* the path itself, else the first template that fits it; 0 when there is
\* none.
DeclaredItem(path) ==
    LET exact == { k \in 1..Len(doc.PathItems) : doc.PathItems[k].Key = path }
        fits == { k \in 1..Len(doc.PathItems) : matchPath(doc.PathItems[k].Key, path) }
    IN  IF exact # {} THEN CHOOSE k \in exact : \A j \in exact : k <= j
        ELSE IF fits # {} THEN CHOOSE k \in fits : \A j \in fits : k <= j
        ELSE 0

\* The operation the document declares for the served request, and its
\* security requirements.
DeclaredOperation ==
    IF DeclaredItem(last.r.path) = 0 THEN NilOperation
    ELSE getOperation(doc.PathItems[DeclaredItem(last.r.path)].Value, last.r.method)

DeclaredReqs == IF DeclaredOperation.nil THEN <<>> ELSE secReqsOf(doc, DeclaredOperation)

\* The served request is one for a declared operation with at least one
\* requirement and no empty one.
IsSecured(reqs) ==
    /\ Served
    /\ Len(reqs) >= 1
    /\ \A k \in 1..Len(reqs) : Len(reqs[k]) > 0

\* The gate, for an operation with the requirements reqs.
Gate(reqs) ==
    /\ Len(last.next) <= 1
    /\ last.next # <<>> => \E k \in 1..Len(reqs) : Passes(reqs[k])
    /\ (~\E k \in 1..Len(reqs) : Passes(reqs[k])) =>
          /\ last.next = <<>>
          /\ Len(last.written) = 1
          /\ last.written[1].status \in
               { StatusBadRequest, StatusUnauthorized, StatusForbidden }

\* C18: for every request to an operation the document declares with at
\* least one security requirement and no empty one, the next handler is
\* invoked at most once and only if some alternative fully passes; when none
\* passes, one error response is written and the next handler is not
\* invoked, whatever other path templates the document holds and in
\* whatever order.
C18_Gate == IsSecured(DeclaredReqs) => Gate(DeclaredReqs)

\* C18: the request is for the secured operation of /pets/mine, none of its
\* alternatives passes, and the next handler is invoked: the middleware
\* went by the path item of the template /pets/{id} declared before it.
C18_Bypass ==
    /\ IsSecured(DeclaredReqs)
    /\ last.r.path = pPetsMine
    /\ DeclaredOperation # FoundOperation
    /\ ~\E k \in 1..Len(DeclaredReqs) : Passes(DeclaredReqs[k])
    /\ last.next # <<>>
    /\ last.written = <<>>

\* Auxiliary: the gate holds for the operation the middleware goes by.
GateOnFoundOperation == IsSecured(FoundReqs) => Gate(FoundReqs)

(***************************************************************************)
(* Properties of the naming maps, checked under SpecKeys                   *)
(***************************************************************************)

\* The canonical keys ResolveNames has bound.
Bound == DOMAIN registry.valueToName

\* C21: after ResolveNames the key-to-name and name-to-key maps are mutually
\* inverse: every bound key k satisfies nameToValues[valueToName[k]] = k, so
\* no two keys are bound to one name.
C21_Inverse ==
    pc = "frozen" =>
        /\ \A k \in Bound :
             /\ registry.valueToName[k] \in DOMAIN registry.nameToValues
             /\ registry.nameToValues[registry.valueToName[k]] = k
        /\ \A k1, k2 \in Bound :
             registry.valueToName[k1] = registry.valueToName[k2] => k1 = k2

\* C21: three groups share the field name priority; the second and the
\* third are both bound to PriorityHighLow.
C21_Collision ==
    /\ pc = "frozen"
    /\ Len(registry.usages) = 3
    /\ \A i \in 1..3 : registry.usages[i].FieldName = nPriority
    /\ Cardinality(Bound) = 3
    /\ \E k1, k2 \in Bound :
         /\ k1 # k2
         /\ registry.valueToName[k1] = tPriorityHighLow
         /\ registry.valueToName[k2] = tPriorityHighLow
         /\ registry.nameToValues[tPriorityHighLow] = k2

\* The registry after CollectEnum was called for the usages in the order
\* p[1], p[2], ... and ResolveNames ranged over its maps in the order ord.
CollectedInOrder(p, ord) ==
    ResolveNames([ NewEnumRegistry EXCEPT
                     !.usages = [ i \in 1..Len(registry.usages) |-> registry.usages[p[i]] ] ],
                 ord)

\* C26: the bindings ResolveNames produces depend only on the multiset of
\* collected usages: every permutation of the same CollectEnum calls yields
\* the same key-to-name and name-to-key maps.
C26_OrderFree ==
    (pc = "frozen" /\ resolved = 1) =>
        \A p \in Permutations(1..Len(registry.usages)) : \A ord \in Orders :
            /\ CollectedInOrder(p, ord).valueToName = registry.valueToName
            /\ CollectedInOrder(p, ord).nameToValues = registry.nameToValues

\* C26: the group with key high|low holds the usages [low, high] and
\* ["high|low"] and takes a suffix; collected in the other order, the same
\* usages give the group another name.
C26_OrderShows ==
    /\ pc = "frozen" /\ resolved = 1
    /\ Len(registry.usages) = 3
    /\ registry.usages[1].ValuesKey = <<>>
    /\ registry.usages[2].Values = << sLow, sHigh >>
    /\ registry.usages[3].Values = << sHigh \o <<"|">> \o sLow >>
    /\ \A i \in 1..3 : registry.usages[i].FieldName = nPriority
    /\ registry.valueToName[keyHighLow] = tPriorityHighLow
    /\ CollectedInOrder(<< 1, 3, 2 >>, last.ord).valueToName[keyHighLow]
         # tPriorityHighLow

\* The value list the i-th usage was collected from.
RawValues(i) == doc.Schemas[i].Properties[1].Schema.Enum

SameValues(v1, v2) ==
    { v1[i] : i \in 1..Len(v1) } = { v2[i] : i \in 1..Len(v2) }

\* C27: two enum value lists get the same canonical key, and with it one
\* name, only if they hold the same values up to order; also lists of
\* non-string values and lists with strings that contain '|'.
C27_KeyInjective ==
    \A i, j \in 1..Len(registry.usages) :
        \/ registry.usages[i].ValuesKey = registry.usages[j].ValuesKey
        \/ enumValuesKey(RawValues(i)) = enumValuesKey(RawValues(j))
        \/ /\ pc = "frozen"
           /\ GetCanonicalName(registry, RawValues(i)).ok
           /\ GetCanonicalName(registry, RawValues(j)).ok
           /\ EnumKeyOf(RawValues(i)) = EnumKeyOf(RawValues(j))
        => SameValues(RawValues(i), RawValues(j))

\* C27: the lists [low, high] and ["high|low"] were collected under one
\* key and share one name, and the list [1, 2] was collected under the
\* empty key, the key of every list without strings.
C27_SharedKey ==
    /\ pc = "frozen"
    /\ \E i, j \in 1..Len(registry.usages) :
         /\ RawValues(i) = valsLowHigh /\ RawValues(j) = valsHighBarLow
         /\ registry.usages[i].ValuesKey = registry.usages[j].ValuesKey
         /\ GetCanonicalName(registry, RawValues(i)) = GetCanonicalName(registry, RawValues(j))
    /\ \E i \in 1..Len(registry.usages) :
         /\ RawValues(i) = valsOneTwo
         /\ registry.usages[i].ValuesKey = EnumKeyOf(valsThree)

(***************************************************************************)
(* Properties of interleaved sessions, checked under SpecRace              *)
(***************************************************************************)

RaceNames == { last[k].name : k \in 1..Len(last) }

\* The sessions that appended a declaration of the name.
Appenders(name) ==
    { i \in RaceSessions :
        \E k \in 1..Len(sessions[i].nestedTypes) : sessions[i].nestedTypes[k].Name = name }

AppendAt(i, name) ==
    CHOOSE k \in 1..Len(last) : last[k] = RaceEvent(i, "append", name)

CheckAt(i, name) ==
    CHOOSE k \in 1..AppendAt(i, name) :
        /\ last[k].sess = i /\ last[k].step = "check"
        /\ \A j \in (k + 1)..AppendAt(i, name) :
             ~(last[j].sess = i /\ last[j].step = "check")

MarkAt(i, name) ==
    IF \E k \in 1..Len(last) : last[k] = RaceEvent(i, "mark", name)
    THEN CHOOSE k \in 1..Len(last) : last[k] = RaceEvent(i, "mark", name)
    ELSE Len(last) + 1

SourceStructs == 1..Len(first.obj)
SourceArrays == 1..Len(first.arr)

\* C25: ResolveType never changes the schema nodes passed to it or reachable
\* from them: after any sequence of resolve calls in any number of sessions
\* every struct and every backing array of the source graph holds what it
\* held at first, and every node denotes the schema it denoted.
C25_SourceUnchanged ==
    /\ \A a \in SourceStructs : doc.mem.obj[a] = first.obj[a]
    /\ \A k \in SourceArrays : doc.mem.arr[k] = first.arr[k]
    /\ \A n \in doc.nodes : ValueAt(doc.mem, n.at) = n.call.s

\* The declaration the last call appended under the name it returned.
LastDeclared ==
    LET nt == sessions[last.sess].nestedTypes
    IN  nt[CHOOSE k \in 1..Len(nt) : nt[k].Name = last.ret]

\* C25: the object of User.prefs was declared: the declaration points at a
\* struct outside the source graph that carries the synthesized name and
\* shares the Properties array of the source node, whose name is empty.
C25_NamedCopy ==
    /\ WasCall
    /\ last.call = Call(NestedObject, nUser, <<"p", "r", "e", "f", "s">>)
    /\ \E k \in 1..Len(sessions[last.sess].nestedTypes) :
         sessions[last.sess].nestedTypes[k].Name = last.ret
    /\ LastDeclared.Schema \notin SourceStructs
    /\ doc.mem.obj[LastDeclared.Schema].Name = last.ret
    /\ doc.mem.obj[LastDeclared.Schema].Properties = doc.mem.obj[last.at].Properties
    /\ doc.mem.obj[LastDeclared.Schema].Properties.arr \in SourceArrays
    /\ doc.mem.obj[last.at].Name = <<>>

\* Auxiliary: a merged or flattened allOf declaration points at a struct
\* outside the source graph whose Properties, Required and AllOf arrays are
\* outside the source graph too.
MergedIsFresh ==
    \A i \in 1..Len(sessions) : \A k \in 1..Len(sessions[i].nestedTypes) :
        LET rt == sessions[i].nestedTypes[k]
            c == doc.mem.obj[rt.Schema]
        IN  (~rt.IsUnion /\ ~rt.IsEnum /\ c.Type = "object" /\ c.Name = rt.Name
             /\ c.Properties.arr \notin SourceArrays)
            => /\ rt.Schema \notin SourceStructs
               /\ c.Required.arr \notin SourceArrays \/ c.Required.len = 0
               /\ c.AllOf.arr \notin SourceArrays \/ c.AllOf.len = 0

\* Auxiliary: a call through the pointer returns what the call on the schema
\* the pointer denotes returns, marks the same names seen and appends
\* declarations of the same names, flags and schemas.
PointerAgreesWithValue ==
    [][ ncalls' = ncalls + 1 =>
          LET i == last'.sess
              v == ResolveType(World(sessions[i], registry, last'.ord), last'.call.s,
                               last'.call.parentName, last'.call.fieldName)
              byValue == v.w.r.nestedTypes
              byPointer == sessions'[i].nestedTypes
          IN  /\ v.ret = last'.ret
              /\ ~v.w.overflow
              /\ v.w.r.seen = sessions'[i].seen
              /\ v.w.r.enumValues = sessions'[i].enumValues
              /\ DOMAIN v.w.reg.generatedTypes = DOMAIN registry'.generatedTypes
              /\ Len(byValue) = Len(byPointer)
              /\ \A k \in (Len(sessions[i].nestedTypes) + 1)..Len(byPointer) :
                   /\ byValue[k].Name = byPointer[k].Name
                   /\ byValue[k].IsEnum = byPointer[k].IsEnum
                   /\ byValue[k].IsUnion = byPointer[k].IsUnion
                   /\ byValue[k].IsAllOf = byPointer[k].IsAllOf
                   /\ byValue[k].Schema = ValueAt(doc'.mem, byPointer[k].Schema)
                   /\ Len(byValue[k].Variants) = Len(byPointer[k].Variants)
                   /\ \A j \in 1..Len(byValue[k].Variants) :
                        /\ byValue[k].Variants[j].TypeName = byPointer[k].Variants[j].TypeName
                        /\ byValue[k].Variants[j].DiscValue = byPointer[k].Variants[j].DiscValue
                        /\ byValue[k].Variants[j].Schema
                             = ValueAt(doc'.mem, byPointer[k].Variants[j].Schema)
      ]_vars

=============================================================================
